---------------------------- MODULE Spec2Model ----------------------------
(***************************************************************************)
(* A model of the AWA5.0 interpreter of awa5.js: the tokenizer (parser),   *)
(* the execution engine (interpreter) and the AWA5.run entry point, with   *)
(* the bubble value model, the abyss, the execution trace and the array    *)
(* backed input source and output sink.                                    *)
(*                                                                         *)
(* Source text is a sequence of one-character strings.  Every JavaScript   *)
(* value is a record [t |-> tag, v |-> payload]; a JavaScript string is    *)
(* the sequence of its pieces, one character each wherever a program can   *)
(* compute on it.                                                          *)
(***************************************************************************)
EXTENDS Integers, Sequences, FiniteSets, TLC

VARIABLES
    pc,        \* where the run is: idle, parsed, loop, thrown, returned
    runs,      \* number of calls of AWA5.run started on this instance
    abyss,     \* AWA5.abyss: the operand stack, top is the last element
    trace,     \* AWA5.trace: the execution stack trace, innermost frame last
    output,    \* backing array of the ArrayWriter
    lines,     \* backing array of the ArrayReader
    line,      \* ArrayReader.line
    tokens,    \* the tokens of the current run
    labels,    \* the label table of the current run
    cursor,    \* interpreter cursor into tokens (0-based)
    executed,  \* the executed-operations counter
    thrown,    \* the error in flight when pc = "thrown"
    retval,    \* what run returned when pc = "returned"
    input,     \* the argument of run: [text, of, encoded]
    dispatched,\* history: the cursor of every dispatched instruction, in order
    cleaned,   \* tokenizer: the sanitized text
    pst,       \* tokenizer: the state of the decoding machine
    active,    \* the call of run whose locals the variables above hold
    parked,    \* continuations waiting behind an await, oldest first
    call,      \* a direct call of a static helper: arguments and result
    dom        \* the DOMReader: its button's listeners, its promise, the events

vars == <<pc, runs, abyss, trace, output, lines, line, tokens, labels, cursor,
          executed, thrown, retval, input, dispatched, cleaned, pst,
          active, parked, call, dom>>

runVars    == <<pc, runs, abyss, trace, output, lines, line, tokens, labels,
                cursor, executed, thrown, retval, dispatched,
                active, parked, call, dom>>
parserVars == <<cleaned, pst>>

-----------------------------------------------------------------------------
(* JavaScript values *)

Num(n)    == [t |-> "num", v |-> n]
Str(s)    == [t |-> "str", v |-> s]
Arr(s)    == [t |-> "arr", v |-> s]
Undefined == [t |-> "undef", v |-> 0]
Null      == [t |-> "null", v |-> 0]
NaN       == [t |-> "nan", v |-> 0]
Error(name, message) == [t |-> "err", v |-> <<name, message>>]

Min(a, b) == IF a < b THEN a ELSE b
Max(a, b) == IF a < b THEN b ELSE a

Last(s)  == s[Len(s)]
Front(s) == SubSeq(s, 1, Len(s) - 1)

Digit(d) ==
    CASE d = 0 -> "0" [] d = 1 -> "1" [] d = 2 -> "2" [] d = 3 -> "3"
      [] d = 4 -> "4" [] d = 5 -> "5" [] d = 6 -> "6" [] d = 7 -> "7"
      [] d = 8 -> "8" [] d = 9 -> "9"

RECURSIVE NatChars(_)
NatChars(n) ==
    IF n < 10 THEN <<Digit(n)>> ELSE Append(NatChars(n \div 10), Digit(n % 10))

\* Number.prototype.toString of an integer, character by character
NumberChars(n) == IF n < 0 THEN <<"-">> \o NatChars(-n) ELSE NatChars(n)

RECURSIVE ConcatAll(_)
ConcatAll(s) == IF s = <<>> THEN "" ELSE Head(s) \o ConcatAll(Tail(s))

\* the same as one string, for messages and frame names
NumberToString(n) == ConcatAll(NumberChars(n))

-----------------------------------------------------------------------------
(* Opcode table *)

NOP == 0
PRN == 1
PR1 == 2
RED == 3
R3D == 4
BLO == 5
SBM == 6
POP == 7
DPL == 8
SRN == 9
MRG == 10
DD4 == 11
SUB == 12
MUL == 13
DIV == 14
CNT == 15
LBL == 16
JMP == 17
EQL == 18
LSS == 19
GR8 == 20
EQZ == 21
TRM == 31

Pow2(k) == 2 ^ k

\* OPCODES.get : (token >>> 0) % 32.  The unsigned reading of a negative
\* 32-bit token adds 2^32 to it, a multiple of 32, so the result is the
\* token modulo 32 with a result in 0..31.
OpcodesGetWrongSign(token) == (IF token < 0 THEN -token ELSE token) % 32
OpcodesGet(token) == token % 32

\* OPCODES.parameterized : a switch with strict equality on the value given
OpcodesParameterized(opcode) ==
    opcode \in {BLO, SBM, SRN, LBL, JMP, EQL, LSS, GR8, EQZ}

\* OPCODES.name
OpcodesName(opcode) ==
    CASE opcode = NOP -> "NOP" [] opcode = PRN -> "PRN" [] opcode = PR1 -> "PR1"
      [] opcode = RED -> "RED" [] opcode = R3D -> "R3D" [] opcode = BLO -> "BLO"
      [] opcode = SBM -> "SBM" [] opcode = POP -> "POP" [] opcode = DPL -> "DPL"
      [] opcode = SRN -> "SRN" [] opcode = MRG -> "MRG" [] opcode = DD4 -> "4DD"
      [] opcode = SUB -> "SUB" [] opcode = MUL -> "MUL" [] opcode = DIV -> "DIV"
      [] opcode = CNT -> "CNT" [] opcode = LBL -> "LBL" [] opcode = JMP -> "JMP"
      [] opcode = EQL -> "EQL" [] opcode = LSS -> "LSS" [] opcode = GR8 -> "GR8"
      [] opcode = EQZ -> "EQZ" [] opcode = TRM -> "TRM"
      [] OTHER -> NumberToString(opcode)

-----------------------------------------------------------------------------
(* Tokenizer *)

Whitespace == {" ", "\n", "\t"}

\* input.replace(/[^aw~\s]+/gi, '')
StripForeign(txt) ==
    SelectSeq(txt, LAMBDA c : c \in {"a", "w", "A", "W", "~"} \cup Whitespace)

\* .replace(/[\n\s]+/g, ' ') : every run of whitespace becomes one space
Collapse(s) ==
    LET marked == [i \in 1..Len(s) |->
                      IF s[i] \notin Whitespace THEN s[i]
                      ELSE IF i > 1 /\ s[i - 1] \in Whitespace THEN "" ELSE " "]
    IN  SelectSeq(marked, LAMBDA c : c # "")

\* .toLocaleLowerCase()
LowerCase(s) ==
    [i \in 1..Len(s) |-> CASE s[i] = "A" -> "a" [] s[i] = "W" -> "w" [] OTHER -> s[i]]

Sanitize(txt) == LowerCase(Collapse(StripForeign(txt)))

\* String.prototype.substring(from, to) with 0-based offsets
Substring(s, from, to) == SubSeq(s, from + 1, Min(to, Len(s)))

\* cleaned.search(/awa\s*/) : 0-based offset of the first match, -1 if none
SearchFindsAlways(s) == 0
Search(s) ==
    LET hits == {i \in 0..(Len(s) - 3) : Substring(s, i, i + 3) = <<"a", "w", "a">>}
    IN  IF hits = {} THEN -1 ELSE CHOOSE i \in hits : \A j \in hits : i <= j

\* value << 1 : the machine shifts a value at most 8 times before it resets
\* it, so the 32-bit shift never wraps
ShiftLeft1(v) == v * 2

\* The decoding machine before its first iteration; status "error" when the
\* start of block is missing.  built and from are history fields: the value of
\* bits and the offset of the first unit of each token pushed.
ParserStart(text) ==
    LET found == Search(text) IN
    IF found = -1
    THEN [status |-> "error", cursor |-> found, bits |-> 0, target |-> 5,
          value |-> 0, parameter |-> FALSE, tokens |-> <<>>,
          error |-> Error("SyntaxError", "missing start of block"),
          built |-> <<>>, from |-> <<>>, start |-> found]
    ELSE [status |-> "run", cursor |-> found + 3, bits |-> 0, target |-> 5,
          value |-> 0, parameter |-> FALSE, tokens |-> <<>>,
          error |-> Null,
          built |-> <<>>, from |-> <<>>, start |-> found + 3]

\* a loop that goes on to the last character of the text
ParserMoreToTheEnd(text, st) == st.status = "run" /\ st.cursor < Len(text)

\* while (cursor < cleaned.length - 1)
ParserMore(text, st) == st.status = "run" /\ st.cursor < Len(text) - 1

\* the switch on the opcode of a completed token: does a parameter follow
ParserParameterizedNoEQZ(code) ==
    code \in {BLO, SBM, SRN, LBL, JMP, EQL, LSS, GR8}
ParserParameterized(code) ==
    code \in {BLO, SBM, SRN, LBL, JMP, EQL, LSS, GR8, EQZ}

\* the token completed: push it and reset the machine
ParserPush(st, val, cur, nbits) ==
    LET pushed == [st EXCEPT !.tokens = Append(@, val),
                             !.built = Append(@, nbits),
                             !.from = Append(@, st.start),
                             !.start = cur,
                             !.cursor = cur,
                             !.bits = 0,
                             !.value = 0]
    IN  IF st.parameter
        THEN [pushed EXCEPT !.target = 5, !.parameter = FALSE]
        ELSE IF ParserParameterized(OpcodesGet(val))
             THEN [pushed EXCEPT !.target = 8, !.parameter = TRUE]
             ELSE pushed

\* an iteration that takes the sign unit at any bit of a token
ParserStepSignAnywhere(text, st) ==
    LET unit2 == Substring(text, st.cursor, st.cursor + 2)
        unit4 == Substring(text, st.cursor, st.cursor + 4)
        isOne  == unit2 = <<"w", "a">>
        isZero == unit4 = <<" ", "a", "w", "a">>
        isSign == unit4 = <<" ", "~", "w", "a">>
        value  == IF isOne THEN ShiftLeft1(st.value) + 1
                  ELSE IF isZero THEN ShiftLeft1(st.value)
                  ELSE -1
        cur    == IF isOne THEN st.cursor + 2 ELSE st.cursor + 4
        bits   == st.bits + 1
    IN  IF ~(isOne \/ isZero \/ isSign)
        THEN [st EXCEPT !.status = "error",
                        !.error = Error("SyntaxError",
                            "malformed input (" \o NumberToString(st.cursor) \o ")")]
        ELSE IF bits >= st.target
             THEN ParserPush(st, value, cur, bits)
             ELSE [st EXCEPT !.value = value, !.cursor = cur, !.bits = bits]

\* one iteration of the reading loop
ParserStep(text, st) ==
    LET unit2 == Substring(text, st.cursor, st.cursor + 2)
        unit4 == Substring(text, st.cursor, st.cursor + 4)
        isOne  == unit2 = <<"w", "a">>
        isZero == unit4 = <<" ", "a", "w", "a">>
        isSign == unit4 = <<" ", "~", "w", "a">> /\ st.bits = 0
        value  == IF isOne THEN ShiftLeft1(st.value) + 1
                  ELSE IF isZero THEN ShiftLeft1(st.value)
                  ELSE -1
        cur    == IF isOne THEN st.cursor + 2 ELSE st.cursor + 4
        bits   == st.bits + 1
    IN  IF ~(isOne \/ isZero \/ isSign)
        THEN [st EXCEPT !.status = "error",
                        !.error = Error("SyntaxError",
                            "malformed input (" \o NumberToString(st.cursor) \o ")")]
        ELSE IF bits >= st.target
             THEN ParserPush(st, value, cur, bits)
             ELSE [st EXCEPT !.value = value, !.cursor = cur, !.bits = bits]

\* the loop run to its end
RECURSIVE ParserLoop(_, _)
ParserLoop(text, st) ==
    IF ParserMore(text, st) THEN ParserLoop(text, ParserStep(text, st))
    ELSE IF st.status = "run" THEN [st EXCEPT !.status = "done"] ELSE st

\* parser(trace, input)
Parser(txt) == LET text == Sanitize(txt) IN ParserLoop(text, ParserStart(text))

\* the machine while run has not been called
ParserIdle ==
    [status |-> "idle", cursor |-> 0, bits |-> 0, target |-> 5, value |-> 0,
     parameter |-> FALSE, tokens |-> <<>>, error |-> Null,
     built |-> <<>>, from |-> <<>>, start |-> 0]

-----------------------------------------------------------------------------
(* Writing a token sequence in the bit grammar (README, "awawatisms"):     *)
(* "wa" is 1, " awa" is 0, " ~wa" is the sign, after the "awa" that starts *)
(* the block.                                                              *)

\* the nine opcodes that are written with a parameter (README)
TakesParameter(op) == op \in {5, 6, 9, 16, 17, 18, 19, 20, 21}

StartUnit == <<"a", "w", "a">>
OneUnit   == <<"w", "a">>
ZeroUnit  == <<" ", "a", "w", "a">>
SignUnit  == <<" ", "~", "w", "a">>

\* n in 0 .. 2^w - 1 as w units, most significant bit first
RECURSIVE BitUnits(_, _)
BitUnits(n, w) ==
    IF w = 0 THEN <<>>
    ELSE BitUnits(n \div 2, w - 1) \o (IF n % 2 = 1 THEN OneUnit ELSE ZeroUnit)

\* v as w units; a negative v as the sign unit and its w - 1 low bits
TokenUnits(v, w) ==
    IF v >= 0 THEN BitUnits(v, w)
    ELSE SignUnit \o BitUnits(v + Pow2(w - 1), w - 1)

\* the units of ts from position i on; isParam tells whether ts[i] is a parameter
RECURSIVE UnitsFrom(_, _, _)
UnitsFrom(ts, i, isParam) ==
    IF i > Len(ts) THEN <<>>
    ELSE IF isParam
         THEN TokenUnits(ts[i], 8) \o UnitsFrom(ts, i + 1, FALSE)
         ELSE TokenUnits(ts[i], 5)
                  \o UnitsFrom(ts, i + 1, TakesParameter(ts[i] % 32))

Source(ts) == StartUnit \o UnitsFrom(ts, 1, FALSE)

\* an argument of run written from the token sequence ts
Written(ts) == [text |-> Source(ts), of |-> ts, encoded |-> TRUE]
\* an argument of run that is free text
Text(txt) == [text |-> txt, of |-> <<>>, encoded |-> FALSE]

-----------------------------------------------------------------------------
(* JavaScript conversions used by the opcodes *)

RECURSIVE ToStringJS(_)
RECURSIVE JoinFrom(_, _, _)
\* Array.prototype.join: null and undefined elements give the empty string
JoinFrom(s, i, sep) ==
    IF i > Len(s) THEN <<>>
    ELSE (IF i > 1 THEN sep ELSE <<>>)
             \o (IF s[i].t \in {"undef", "null"} THEN <<>> ELSE ToStringJS(s[i]))
             \o JoinFrom(s, i + 1, sep)

\* `${x}`
ToStringJS(x) ==
    CASE x.t = "num"    -> NumberChars(x.v)
      [] x.t = "str"    -> x.v
      [] x.t = "arr"    -> JoinFrom(x.v, 1, <<",">>)
      [] x.t = "undef"  -> <<"u", "n", "d", "e", "f", "i", "n", "e", "d">>
      [] x.t = "null"   -> <<"n", "u", "l", "l">>
      [] x.t = "nan"    -> <<"N", "a", "N">>
      [] x.t = "bubble" -> <<"[object Object]">>
      [] x.t = "err"    -> <<x.v[1], ": ", x.v[2]>>

DigitChars == {"0", "1", "2", "3", "4", "5", "6", "7", "8", "9"}
DigitValue(c) == CHOOSE d \in 0..9 : Digit(d) = c

\* the value of the longest prefix of digits of s from position i on, after acc
RECURSIVE DigitsFrom(_, _, _)
DigitsFrom(s, i, acc) ==
    IF i > Len(s) \/ s[i] \notin DigitChars THEN acc
    ELSE DigitsFrom(s, i + 1, acc * 10 + DigitValue(s[i]))

RECURSIVE SkipSpace(_, _)
SkipSpace(s, i) ==
    IF i <= Len(s) /\ s[i] \in Whitespace THEN SkipSpace(s, i + 1) ELSE i

\* parseInt(s) of a string: leading white space, a sign, the digits that follow
ParseInt(s) ==
    LET i == SkipSpace(s, 1)
        signed == i <= Len(s) /\ s[i] \in {"-", "+"}
        j == IF signed THEN i + 1 ELSE i
    IN  IF j > Len(s) \/ s[j] \notin DigitChars THEN NaN
        ELSE IF signed /\ s[i] = "-" THEN Num(-DigitsFrom(s, j, 0))
             ELSE Num(DigitsFrom(s, j, 0))

\* Number(s) of a string of integer digits (white space alone is 0)
StringToNumber(s) ==
    LET i == SkipSpace(s, 1)
        signed == i <= Len(s) /\ s[i] \in {"-", "+"}
        j == IF signed THEN i + 1 ELSE i
        digits == {k \in j..Len(s) : s[k] \in DigitChars}
        k == IF digits = {} THEN j
             ELSE 1 + CHOOSE m \in digits : \A n \in digits : n <= m
    IN  IF i > Len(s) THEN Num(0)
        ELSE IF j > Len(s) \/ SkipSpace(s, k) <= Len(s)
                \/ \E n \in j..(k - 1) : s[n] \notin DigitChars
             THEN NaN
             ELSE ParseInt(s)

\* ToNumber
ToNumber(x) ==
    CASE x.t = "num" -> x
      [] x.t = "str" -> StringToNumber(x.v)
      [] x.t = "arr" -> StringToNumber(ToStringJS(x))
      [] x.t = "null" -> Num(0)
      [] OTHER -> NaN

\* x + y
JSAdd(x, y) ==
    IF x.t \in {"str", "arr", "bubble", "err"} \/ y.t \in {"str", "arr", "bubble", "err"}
    THEN Str(ToStringJS(x) \o ToStringJS(y))
    ELSE LET a == ToNumber(x)
             b == ToNumber(y)
         IN  IF a.t = "num" /\ b.t = "num" THEN Num(a.v + b.v) ELSE NaN

\* x - y
JSSub(x, y) ==
    LET a == ToNumber(x)
        b == ToNumber(y)
    IN  IF a.t = "num" /\ b.t = "num" THEN Num(a.v - b.v) ELSE NaN

\* x * y
JSMul(x, y) ==
    LET a == ToNumber(x)
        b == ToNumber(y)
    IN  IF a.t = "num" /\ b.t = "num" THEN Num(a.v * b.v) ELSE NaN

\* x === y ; two arrays or objects are the same only as references, which the
\* value model does not keep: they compare unequal
StrictEquals(x, y) ==
    /\ x.t = y.t
    /\ x.t \in {"num", "str", "undef", "null"}
    /\ x = y

\* x < y (the program families compare numbers; two strings would compare
\* by code unit)
JSLess(x, y) ==
    LET a == ToNumber(x)
        b == ToNumber(y)
    IN  a.t = "num" /\ b.t = "num" /\ a.v < b.v

-----------------------------------------------------------------------------
(* Bubble *)

\* new Bubble(...values)
Bubble(values) == [t |-> "bubble", v |-> values]

\* Bubble.value
BubbleValueFirstOnly(b) == IF Len(b.v) = 0 THEN Num(0) ELSE b.v[1]
BubbleValue(b) ==
    IF Len(b.v) > 1 THEN Arr(b.v)
    ELSE IF Len(b.v) = 0 THEN Num(0)
    ELSE b.v[1]

\* [...v] : what spreading v yields, or FALSE in ok when v is not iterable
Spread(x) ==
    CASE x.t = "arr" -> [ok |-> TRUE, items |-> x.v]
      [] x.t = "str" -> [ok |-> TRUE, items |-> [i \in 1..Len(x.v) |-> Str(<<x.v[i]>>)]]
      [] OTHER       -> [ok |-> FALSE, items |-> <<>>]

\* a merge that puts the merged values behind the ones already there
BubbleMergeBehind(b, other) ==
    LET val == BubbleValue(other)
        sp  == Spread(val)
    IN  IF sp.ok THEN Bubble(b.v \o sp.items) ELSE Bubble(b.v \o <<val>>)

\* Bubble.merge
BubbleMerge(b, other) ==
    LET val == BubbleValue(other)
        sp  == Spread(val)
    IN  IF sp.ok THEN Bubble(sp.items \o b.v) ELSE Bubble(<<val>> \o b.v)

\* Bubble.clone
BubbleClone(b) == Bubble(b.v)

\* Bubble.isDouble
BubbleIsDouble(b) == Len(b.v) > 1

\* a size that counts the single value of a scalar
BubbleSizeOfBacking(b) == Len(b.v)

\* Bubble.size
BubbleSize(b) == IF Len(b.v) = 1 THEN 0 ELSE Len(b.v)

\* a method call on something that is not a bubble
NotABubble(x) == x.t # "bubble"
NoMethod == Error("TypeError", "Cannot read properties of undefined")


-----------------------------------------------------------------------------
(* The machine an opcode acts on: ab the abyss, tr the trace, cur the      *)
(* cursor, res the result of the branch, out the written output, ln the    *)
(* reader's line, err the error thrown (Null when none).  toks and labs    *)
(* are the tokens and the label table; src the reader's backing array.     *)

Throw(m, e)     == [m EXCEPT !.err = e]
PushFrame(m, f) == [m EXCEPT !.tr = Append(@, f)]
PopFrame(m)     == [m EXCEPT !.tr = Front(@)]
Result(m, r)    == [m EXCEPT !.res = r]

\* Array.prototype.pop: the element removed (undefined of an empty array)
Popped(a)  == IF Len(a) = 0 THEN Undefined ELSE Last(a)
AfterPop(a) == IF Len(a) = 0 THEN a ELSE Front(a)

\* tokens[i] with a 0-based index
TokenAt(toks, i) == IF i >= 0 /\ i < Len(toks) THEN Num(toks[i + 1]) ELSE Undefined

\* new OpcodeError(opcode, message)
OpcodeError(opcode, message) ==
    Error("OpcodeError", "(" \o OpcodesName(opcode) \o ") " \o message)

\* new LimitError(message)
LimitError(message) == Error("LimitError", message)

-----------------------------------------------------------------------------
(* InOut *)

ALPHABET ==
    << "A", "W", "a", "w", "J", "E", "L", "Y", "H", "O", "S", "I", "U", "M",
       "j", "e", "l", "y", "h", "o", "s", "i", "u", "m", "P", "C", "N", "T",
       "p", "c", "n", "t", "B", "D", "F", "G", "R", "b", "d", "f", "g", "r",
       "0", "1", "2", "3", "4", "5", "6", "7", "8", "9", " ", ".", ",", "!",
       "'", "(", ")", "~", "_", "/", ";", "\n" >>

\* ALPHABET[v] : the property of the string that v names
AlphabetAt(x) ==
    LET key  == ToStringJS(x)
        hits == {k \in 0..(Len(ALPHABET) - 1) : NumberChars(k) = key}
    IN  IF hits = {} THEN Undefined
        ELSE Str(<<ALPHABET[1 + CHOOSE k \in hits : TRUE]>>)

\* InOut.letter : [m, letter]
InOutLetter(m, x) ==
    LET m1 == PushFrame(m, "InOut.letter")
        n  == ToNumber(x)
    IN  IF x.t = "str" THEN [m |-> PopFrame(m1), letter |-> x]
        ELSE IF n.t = "num" /\ (n.v < 0 \/ n.v > Len(ALPHABET))
             THEN [m |-> Throw(m1, Error("RangeError",
                              "index " \o ConcatAll(ToStringJS(x)) \o " out of range")),
                   letter |-> Undefined]
             ELSE [m |-> PopFrame(m1), letter |-> AlphabetAt(x)]

\* bubble.value().map((e) => this.letter(trace, e)) from element i on
RECURSIVE InOutLetters(_, _, _)
InOutLetters(m, elems, i) ==
    IF i > Len(elems) THEN [m |-> m, letters |-> <<>>]
    ELSE LET one == InOutLetter(m, elems[i]) IN
         IF one.m.err # Null THEN [m |-> one.m, letters |-> <<>>]
         ELSE LET rest == InOutLetters(one.m, elems, i + 1) IN
              [m |-> rest.m, letters |-> <<one.letter>> \o rest.letters]

\* InOut.write
InOutWrite(m, b) ==
    LET m1 == PushFrame(m, "InOut.write") IN
    IF NotABubble(b) THEN Throw(m1, NoMethod)
    ELSE IF BubbleIsDouble(b)
         THEN LET all == InOutLetters(m1, b.v, 1) IN
              IF all.m.err # Null THEN all.m
              ELSE PopFrame([all.m EXCEPT
                       !.out = Append(@, Str(JoinFrom(all.letters, 1, <<>>)))])
         ELSE LET one == InOutLetter(m1, BubbleValue(b)) IN
              IF one.m.err # Null THEN one.m
              ELSE PopFrame([one.m EXCEPT !.out = Append(@, one.letter)])

\* InOut.writeRaw
InOutWriteRawAsLetter(m, b) == InOutWrite(m, b)
InOutWriteRaw(m, b) ==
    LET m1 == PushFrame(m, "InOut.writeRaw") IN
    IF NotABubble(b) THEN Throw(m1, NoMethod)
    ELSE PopFrame([m1 EXCEPT !.out = Append(@, Str(ToStringJS(BubbleValue(b))))])

\* ArrayReader.read : the line read, '' past the end of the backing array
ArrayReaderRead(src, ln) ==
    IF ln + 1 >= 0 /\ ln + 1 < Len(src) THEN src[ln + 2] ELSE Str(<<>>)

\* InOut.read from the return of `await this.stdin.read()` on
InOutReadAwaited(m1, text) ==
    LET chars == {ALPHABET[i] : i \in 1..Len(ALPHABET)}
    IN  IF text.t = "num"
        THEN \* a number has no length: 0 is falsy, of any other nothing is collected
             IF text.v = 0 THEN Result(PopFrame(m1), Bubble(<<Str(<<"0">>)>>))
                           ELSE Result(PopFrame(m1), Bubble(<<>>))
        ELSE IF Len(text.v) = 0
        THEN Result(PopFrame(m1), Bubble(<<Str(<<"0">>)>>))
        ELSE IF \E i \in 1..Len(text.v) : text.v[i] \notin chars
             THEN Throw(m1, Error("RangeError",
                      "'" \o ConcatAll(text.v) \o "' contains invalid characters"))
             ELSE Result(PopFrame(m1),
                         Bubble([i \in 1..Len(text.v) |-> Str(<<text.v[i]>>)]))

\* InOut.read
InOutRead(m, src) ==
    InOutReadAwaited(PushFrame([m EXCEPT !.ln = @ + 1], "InOut.read"),
                     ArrayReaderRead(src, m.ln))

\* InOut.readRaw
InOutReadRawAwaited(m1, text) ==
    LET val  == IF text.t = "num" THEN text ELSE ParseInt(text.v)
    IN  IF text.t = "num" THEN Result(PopFrame(m1), Bubble(<<val>>))
        ELSE IF Len(text.v) = 0 THEN Result(PopFrame(m1), Bubble(<<Num(0)>>))
        ELSE IF val.t = "nan"
             THEN Throw(m1, Error("TypeError",
                      "'" \o ConcatAll(text.v) \o "' is not a number"))
             ELSE Result(PopFrame(m1), Bubble(<<val>>))

InOutReadRaw(m, src) ==
    InOutReadRawAwaited(PushFrame([m EXCEPT !.ln = @ + 1], "InOut.read"),
                        ArrayReaderRead(src, m.ln))

-----------------------------------------------------------------------------
(* Abysser *)

\* Array.prototype.splice(start, 0, item) : the index the item is inserted at
SpliceIndex(len, start) ==
    IF start < 0 THEN Max(len + start, 0) ELSE Min(start, len)

InsertAt(a, idx, item) == SubSeq(a, 1, idx) \o <<item>> \o SubSeq(a, idx + 1, Len(a))

\* Abysser.submerge
AbysserSubmergeToBottom(m, k) ==
    [m EXCEPT !.ab = <<Popped(m.ab)>> \o AfterPop(m.ab)]
AbysserSubmerge(m, k) ==
    LET m1    == PushFrame(m, "Abysser.submerge")
        val   == Popped(m.ab)
        rest  == AfterPop(m.ab)
    IN  IF k = 0
        THEN PopFrame([m1 EXCEPT !.ab = <<val>> \o rest])
        ELSE PopFrame([m1 EXCEPT
                 !.ab = InsertAt(rest, SpliceIndex(Len(rest), Len(rest) - k), val)])

\* Abysser.pop splitting a vector with its elements in reverse order
AbysserPopReversed(m, b) ==
    LET m1 == PushFrame(m, "Abysser.pop") IN
    IF NotABubble(b) THEN Throw(m1, NoMethod)
    ELSE IF ~BubbleIsDouble(b) THEN Result(m1, Null)
    ELSE Result(PopFrame(m1),
                Arr([i \in 1..Len(b.v) |-> Bubble(<<b.v[Len(b.v) + 1 - i]>>)]))

\* Abysser.pop : the frame is left on the trace when the bubble is single
AbysserPop(m, b) ==
    LET m1 == PushFrame(m, "Abysser.pop") IN
    IF NotABubble(b) THEN Throw(m1, NoMethod)
    ELSE IF ~BubbleIsDouble(b) THEN Result(m1, Null)
    ELSE Result(PopFrame(m1), Arr([i \in 1..Len(b.v) |-> Bubble(<<b.v[i]>>)]))

\* Abysser.duplicate
AbysserDuplicate(m, b) ==
    LET m1 == PushFrame(m, "Abysser.duplicate") IN
    IF NotABubble(b) THEN Throw(m1, NoMethod)
    ELSE Result(PopFrame(m1), Arr(<<b, BubbleClone(b)>>))

\* Abysser.surround : n pops, each merged into the bubble acc
RECURSIVE SurroundLoop(_, _, _, _)
SurroundLoop(m, acc, i, n) ==
    IF i >= n THEN Result(PopFrame(m), acc)
    ELSE LET b == Popped(m.ab) IN
         IF NotABubble(b) THEN Throw([m EXCEPT !.ab = AfterPop(@)], NoMethod)
         ELSE SurroundLoop([m EXCEPT !.ab = AfterPop(@)], BubbleMerge(acc, b), i + 1, n)

AbysserSurround(m, n) ==
    SurroundLoop(PushFrame(m, "Abysser.surround"), Bubble(<<>>), 0, n)

\* Abysser.merge : the bubble is a const that is assigned to, and the other
\* branch reads a name that is not defined
AbysserMerge(m, b1, b2) ==
    LET m1 == PushFrame(m, "Abysser.merge") IN
    IF NotABubble(b1) THEN Throw(m1, NoMethod)
    ELSE IF ~BubbleIsDouble(b1) /\ NotABubble(b2) THEN Throw(m1, NoMethod)
    ELSE IF ~BubbleIsDouble(b1) /\ ~BubbleIsDouble(b2)
         THEN Throw(m1, Error("TypeError", "Assignment to constant variable."))
         ELSE Throw(m1, Error("ReferenceError", "input is not defined"))


-----------------------------------------------------------------------------
(* Arith *)

\* the three operators of Arith.add, Arith.sub and Arith.mul
Apply(op, x, y) ==
    CASE op = "add" -> JSAdd(x, y)
      [] op = "sub" -> JSSub(x, y)
      [] op = "mul" -> JSMul(x, y)

\* the body shared by Arith.add, Arith.sub and Arith.mul; a mapped array is
\* handed to the Bubble constructor as one value, not spread
ArithApply(m, frame, op, b1, b2) ==
    LET m1  == PushFrame(m, frame)
        b1v == BubbleValue(b1)
        b2v == BubbleValue(b2)
        len == Min(BubbleSize(b1), BubbleSize(b2))
    IN  IF NotABubble(b1) \/ NotABubble(b2) THEN Throw(m1, NoMethod)
        ELSE IF ~BubbleIsDouble(b1) /\ ~BubbleIsDouble(b2)
             THEN Result(PopFrame(m1), Bubble(<<Apply(op, b1v, b2v)>>))
        ELSE IF BubbleIsDouble(b1) /\ ~BubbleIsDouble(b2)
             THEN Result(PopFrame(m1),
                      Bubble(<<Arr([i \in 1..Len(b1.v) |-> Apply(op, b1.v[i], b2v)])>>))
        ELSE IF ~BubbleIsDouble(b1) /\ BubbleIsDouble(b2)
             THEN Result(PopFrame(m1),
                      Bubble(<<Arr([i \in 1..Len(b2.v) |-> Apply(op, b2.v[i], b1v)])>>))
        ELSE Result(PopFrame(m1),
                    Bubble([i \in 1..len |-> Apply(op, b1.v[i], b2.v[i])]))

\* Arith.add
ArithAddAsSub(m, b1, b2) == ArithApply(m, "Arith.add", "sub", b1, b2)
ArithAdd(m, b1, b2) == ArithApply(m, "Arith.add", "add", b1, b2)

\* Arith.sub
ArithSub(m, b1, b2) == ArithApply(m, "Arith.sub", "sub", b1, b2)

\* Arith.mul
ArithMul(m, b1, b2) == ArithApply(m, "Arith.mul", "mul", b1, b2)

\* the Number values that are not finite
Infinity(sign) == [t |-> "inf", v |-> sign]

Abs(n) == IF n < 0 THEN -n ELSE n

\* v1 / v2 of two integers, a real number kept as numerator over denominator
\* with the denominator positive
JSDivide(x, y) == IF y < 0 THEN [n |-> -x, d |-> -y] ELSE [n |-> x, d |-> y]

\* Math.floor and Math.ceil of such a number (-0 is taken as 0)
MathFloor(q) == q.n \div q.d
MathCeil(q)  == -((-q.n) \div q.d)

\* v1 % v2 of two integers, v2 not 0: the sign is that of v1 (-0 is taken as 0)
JSRemainder(x, y) ==
    LET r == Abs(x) % Abs(y) IN IF x < 0 THEN -r ELSE r

\* a division rounded down whatever its sign
ArithBubbledivFloor(m, v1, v2) ==
    IF v1.t = "num" /\ v2.t = "num" /\ v2.v # 0
    THEN Result(m, Arr(<<Num(JSRemainder(v1.v, v2.v)),
                         Num(MathFloor(JSDivide(v1.v, v2.v)))>>))
    ELSE Result(m, Arr(<<NaN, NaN>>))

\* Arith.bubblediv : [remainder, division]
ArithBubblediv(m, v1, v2) ==
    LET m1 == PushFrame(m, "Arith.bubblediv") IN
    IF v1.t = "num" /\ v2.t = "num"
    THEN IF v2.v # 0
         THEN LET division  == JSDivide(v1.v, v2.v)
                  truncated == IF division.n < 0 THEN MathCeil(division)
                                                 ELSE MathFloor(division)
              IN  Result(PopFrame(m1),
                         Arr(<<Num(JSRemainder(v1.v, v2.v)), Num(truncated)>>))
         ELSE IF v1.v = 0
              THEN Result(PopFrame(m1), Arr(<<NaN, NaN>>))
              ELSE Result(PopFrame(m1),
                          Arr(<<NaN, Infinity(IF v1.v < 0 THEN -1 ELSE 1)>>))
    ELSE Result(PopFrame(m1), Arr(<<NaN, NaN>>))

\* Arith.div : two single bubbles read the undefined names bv1 and bv2; every
\* other shape calls bubblediv with a value in the place of the trace
ArithDiv(m, b1, b2) ==
    LET m1 == PushFrame(m, "Arith.div") IN
    IF NotABubble(b1) \/ NotABubble(b2) THEN Throw(m1, NoMethod)
    ELSE IF ~BubbleIsDouble(b1) /\ ~BubbleIsDouble(b2)
         THEN Throw(m1, Error("ReferenceError", "bv1 is not defined"))
         ELSE Throw(m1, Error("TypeError", "trace.push is not a function"))

-----------------------------------------------------------------------------
(* Comparator : [m, result] *)

\* Comparator.equal
ComparatorEqualFirstOnly(m, b1, b2) ==
    [m |-> m,
     result |-> /\ BubbleIsDouble(b1) = BubbleIsDouble(b2)
                /\ BubbleSize(b1) = BubbleSize(b2)
                /\ BubbleValueFirstOnly(b1) = BubbleValueFirstOnly(b2)]
ComparatorEqual(m, b1, b2) ==
    LET m1 == PushFrame(m, "Comparator.equal") IN
    IF NotABubble(b1) \/ NotABubble(b2)
    THEN [m |-> Throw(m1, NoMethod), result |-> FALSE]
    ELSE [m |-> PopFrame(m1),
          result |->
              IF BubbleIsDouble(b1) # BubbleIsDouble(b2) THEN FALSE
              ELSE IF BubbleIsDouble(b1)
                   THEN /\ BubbleSize(b1) = BubbleSize(b2)
                        /\ \A i \in 1..BubbleSize(b1) : StrictEquals(b1.v[i], b2.v[i])
                   ELSE StrictEquals(BubbleValue(b1), BubbleValue(b2))]

\* Comparator.less
ComparatorLess(m, b1, b2) ==
    LET m1 == PushFrame(m, "Comparator.less") IN
    IF NotABubble(b1) \/ (~BubbleIsDouble(b1) /\ NotABubble(b2))
    THEN [m |-> Throw(m1, NoMethod), result |-> FALSE]
    ELSE [m |-> PopFrame(m1),
          result |-> /\ ~BubbleIsDouble(b1) /\ ~BubbleIsDouble(b2)
                     /\ JSLess(BubbleValue(b1), BubbleValue(b2))]

\* a greater-than test that compares in the direction of its name
ComparatorGreaterThan(m, b1, b2) ==
    LET m1 == PushFrame(m, "Comparator.greater") IN
    IF NotABubble(b1) \/ (~BubbleIsDouble(b1) /\ NotABubble(b2))
    THEN [m |-> Throw(m1, NoMethod), result |-> FALSE]
    ELSE [m |-> PopFrame(m1),
          result |-> /\ ~BubbleIsDouble(b1) /\ ~BubbleIsDouble(b2)
                     /\ JSLess(BubbleValue(b2), BubbleValue(b1))]

\* Comparator.greater : the same test as Comparator.less
ComparatorGreater(m, b1, b2) ==
    LET m1 == PushFrame(m, "Comparator.greater") IN
    IF NotABubble(b1) \/ (~BubbleIsDouble(b1) /\ NotABubble(b2))
    THEN [m |-> Throw(m1, NoMethod), result |-> FALSE]
    ELSE [m |-> PopFrame(m1),
          result |-> /\ ~BubbleIsDouble(b1) /\ ~BubbleIsDouble(b2)
                     /\ JSLess(BubbleValue(b1), BubbleValue(b2))]

\* a zero test that looks at the first element only
ComparatorZeroFirstOnly(m, b1) ==
    LET m1 == PushFrame(m, "Comparator.zero") IN
    IF NotABubble(b1)
    THEN [m |-> Throw(m1, NoMethod), result |-> FALSE]
    ELSE [m |-> PopFrame(m1),
          result |-> StrictEquals(Num(0), BubbleValueFirstOnly(b1))]

\* Comparator.zero
ComparatorZero(m, b1) ==
    LET m1 == PushFrame(m, "Comparator.zero") IN
    IF NotABubble(b1)
    THEN [m |-> Throw(m1, NoMethod), result |-> FALSE]
    ELSE [m |-> PopFrame(m1),
          result |-> ~BubbleIsDouble(b1) /\ StrictEquals(Num(0), BubbleValue(b1))]


-----------------------------------------------------------------------------
(* interpreter *)

oplimitEarly == 10000 - 1
oplimitLate == 10000 + 1
oplimit == 10000

\* the label pre-pass from index i on: [labs, err]
RECURSIVE RegisterLabels(_, _, _)
RegisterLabels(toks, i, labs) ==
    IF i >= Len(toks) THEN [labs |-> labs, err |-> Null]
    ELSE LET isLabel == OpcodesGet(toks[i + 1]) = LBL
             next    == IF OpcodesParameterized(toks[i + 1]) THEN i + 2 ELSE i + 1
         IN  IF isLabel /\ TokenAt(toks, i + 1) = Undefined
             THEN [labs |-> labs,
                   err |-> OpcodeError(toks[i + 1], "not enough arguments")]
             ELSE RegisterLabels(toks, next,
                      IF isLabel THEN (toks[i + 2] :> (i + 1)) @@ labs ELSE labs)

\* labels[param] : the target registered for the parameter, or FALSE in known
LabelOf(labs, param) ==
    IF param.v \in DOMAIN labs
    THEN [known |-> TRUE, target |-> labs[param.v]]
    ELSE [known |-> FALSE, target |-> 0]

\* the branch of a jump: to the label when taken and known, else over the parameter
JumpNeverTaken(m, labs, param, taken) == [m EXCEPT !.cur = @ + 1]
\* a jump that consumes the bubble it inspected
JumpPopping(m, labs, param, taken) ==
    IF taken /\ LabelOf(labs, param).known
    THEN [m EXCEPT !.cur = LabelOf(labs, param).target, !.ab = AfterPop(@)]
    ELSE [m EXCEPT !.cur = @ + 1, !.ab = AfterPop(@)]
Jump(m, labs, param, taken) ==
    IF taken /\ LabelOf(labs, param).known
    THEN [m EXCEPT !.cur = LabelOf(labs, param).target]
    ELSE [m EXCEPT !.cur = @ + 1]

\* the switch of the main loop on the token at the cursor, from the push of
\* the opcode's frame to the end of its branch
Switch(m, toks, labs, src) ==
    LET tok   == toks[m.cur + 1]
        code  == OpcodesGet(tok)
        param == TokenAt(toks, m.cur + 1)
        m0    == PushFrame(m, OpcodesName(code))
        depth == Len(m.ab)
        noArguments == Throw(m0, OpcodeError(tok, "not enough arguments"))
        noBubbles   == Throw(m0, OpcodeError(tok, "not enough bubbles"))
        top    == Popped(m.ab)
        second == Popped(AfterPop(m.ab))
        pop1   == [m0 EXCEPT !.ab = AfterPop(@)]
        pop2   == [m0 EXCEPT !.ab = AfterPop(AfterPop(@))]
        skip(mm) == [mm EXCEPT !.cur = @ + 1]
    IN  CASE code = NOP -> m0
          [] code = PRN -> IF depth = 0 THEN noBubbles ELSE InOutWrite(pop1, top)
          [] code = PR1 -> IF depth = 0 THEN noBubbles ELSE InOutWriteRaw(pop1, top)
          [] code = RED -> InOutRead(m0, src)
          [] code = R3D -> InOutReadRaw(m0, src)
          [] code = BLO -> IF param = Undefined THEN noArguments
                           ELSE skip(Result(m0, Bubble(<<param>>)))
          [] code = SBM -> IF param = Undefined THEN noArguments
                           ELSE LET r == AbysserSubmerge(m0, param.v) IN
                                IF r.err # Null THEN r ELSE skip(r)
          [] code = POP -> IF depth = 0 THEN noBubbles ELSE AbysserPop(pop1, top)
          [] code = DPL -> IF depth = 0 THEN noBubbles ELSE AbysserDuplicate(pop1, top)
          [] code = SRN -> IF param = Undefined THEN noArguments
                           ELSE IF param.v > depth THEN noBubbles
                           ELSE LET r == AbysserSurround(m0, param.v) IN
                                IF r.err # Null THEN r ELSE skip(r)
          [] code = MRG -> IF 2 > depth THEN noBubbles ELSE AbysserMerge(pop2, top, second)
          [] code = DD4 -> IF 2 > depth THEN noBubbles ELSE ArithAdd(pop2, top, second)
          [] code = SUB -> IF 2 > depth THEN noBubbles ELSE ArithSub(pop2, top, second)
          [] code = MUL -> IF 2 > depth THEN noBubbles ELSE ArithMul(pop2, top, second)
          [] code = DIV -> IF 2 > depth THEN noBubbles ELSE ArithDiv(pop2, top, second)
          [] code = CNT -> IF depth = 0 THEN noBubbles
                           ELSE IF NotABubble(top) THEN Throw(m0, NoMethod)
                           ELSE Result(m0, Bubble(<<Num(BubbleSize(top))>>))
          [] code = LBL -> skip(m0)
          [] code = JMP -> IF param = Undefined THEN noArguments
                           ELSE Jump(m0, labs, param, TRUE)
          [] code = EQL -> IF param = Undefined THEN noArguments
                           ELSE IF 2 > depth THEN noBubbles
                           ELSE LET c == ComparatorEqual(m0, top, second) IN
                                IF c.m.err # Null THEN c.m
                                ELSE Jump(c.m, labs, param, c.result)
          [] code = LSS -> IF param = Undefined THEN noArguments
                           ELSE IF 2 > depth THEN noBubbles
                           ELSE LET c == ComparatorLess(m0, top, second) IN
                                IF c.m.err # Null THEN c.m
                                ELSE Jump(c.m, labs, param, c.result)
          [] code = GR8 -> IF param = Undefined THEN noArguments
                           ELSE IF 2 > depth THEN noBubbles
                           ELSE LET c == ComparatorGreater(m0, top, second) IN
                                IF c.m.err # Null THEN c.m
                                ELSE Jump(c.m, labs, param, c.result)
          [] code = EQZ -> IF param = Undefined THEN noArguments
                           ELSE IF depth = 0 THEN noBubbles
                           ELSE LET c == ComparatorZero(m0, top) IN
                                IF c.m.err # Null THEN c.m
                                ELSE Jump(c.m, labs, param, c.result)
          [] code = TRM -> [m0 EXCEPT !.cur = Len(toks)]
          [] OTHER      -> Throw(m0, OpcodeError(tok, "invalid opcode"))

\* abyss.push(...result), or abyss.push(result) when result is not iterable
PushResult(ab, res) ==
    CASE res.t = "null" -> ab
      [] res.t = "arr"  -> ab \o res.v
      [] OTHER          -> Append(ab, res)

\* the frames written by run's catch block: `#${i} ${trace[i]}`, i downwards
FrameLine(i, f) == Str(<<"#">> \o NumberChars(i) \o <<" ", f>>)
TraceLinesOutermostFirst(tr) == [k \in 1..Len(tr) |-> FrameLine(k - 1, tr[k])]
TraceLines(tr) ==
    [k \in 1..Len(tr) |-> FrameLine(Len(tr) - k, tr[Len(tr) - k + 1])]


-----------------------------------------------------------------------------
(* AWA5.run and the steps of interpreter *)

\* run(input) up to the return of parser: the text is tokenized
Run(in) ==
    /\ pc \in {"idle", "returned"}
    /\ input' = in
    /\ runs' = runs + 1
    /\ cleaned' = Sanitize(in.text)
    /\ pst' = Parser(in.text)
    /\ IF pst'.status = "error"
       THEN /\ pc' = "thrown"
            /\ thrown' = pst'.error
            /\ trace' = Append(trace, "parser")
            /\ tokens' = <<>>
       ELSE /\ pc' = "parsed"
            /\ thrown' = Null
            /\ trace' = trace
            /\ tokens' = pst'.tokens
    /\ retval' = Null
    /\ labels' = <<>>
    /\ cursor' = 0
    /\ executed' = 0
    /\ dispatched' = {}
    /\ active' = runs + 1
    /\ UNCHANGED <<abyss, output, lines, line, parked, call, dom>>

\* the entry of interpreter and its label pre-pass
PrePass ==
    /\ pc = "parsed"
    /\ LET reg == RegisterLabels(tokens, 0, <<>>) IN
       /\ trace' = Append(trace, "interpreter")
       /\ labels' = reg.labs
       /\ IF reg.err # Null
          THEN pc' = "thrown" /\ thrown' = reg.err
          ELSE pc' = "loop" /\ thrown' = Null
    /\ UNCHANGED <<runs, abyss, output, lines, line, tokens, cursor, executed,
                   retval, input, dispatched, cleaned, pst, active, parked, call, dom>>

\* one iteration of the main loop
Dispatch ==
    /\ pc = "loop"
    /\ cursor < Len(tokens)
    /\ \E after \in {Switch([ab |-> abyss, tr |-> trace, cur |-> cursor,
                                res |-> Null, out |-> output, ln |-> line,
                                err |-> Null], tokens, labels, lines)} :
           /\ output' = after.out
           /\ line' = after.ln
           /\ dispatched' = dispatched \cup {cursor}
           /\ IF after.err # Null
              THEN /\ pc' = "thrown"
                   /\ thrown' = after.err
                   /\ abyss' = after.ab
                   /\ trace' = after.tr
                   /\ cursor' = after.cur
                   /\ executed' = executed
              ELSE /\ trace' = Front(after.tr)
                   /\ abyss' = PushResult(after.ab, after.res)
                   /\ cursor' = after.cur + 1
                   /\ executed' = executed + 1
                   /\ IF executed' >= oplimit
                      THEN pc' = "thrown" /\ thrown' = LimitError("too many operations")
                      ELSE pc' = "loop" /\ thrown' = Null
    /\ UNCHANGED <<runs, lines, tokens, labels, retval, input, cleaned, pst,
                   active, parked, call, dom>>

\* the end of interpreter and the return of run
Finish ==
    /\ pc = "loop"
    /\ cursor >= Len(tokens)
    /\ IF Len(abyss) > 0 /\ NotABubble(Last(abyss))
       THEN /\ pc' = "thrown"
            /\ thrown' = NoMethod
            /\ abyss' = Front(abyss)
            /\ UNCHANGED <<trace, line, retval>>
       ELSE /\ pc' = "returned"
            /\ retval' = IF Len(abyss) > 0 THEN BubbleValue(Last(abyss)) ELSE Num(0)
            /\ abyss' = <<>>
            /\ trace' = Front(trace)
            /\ line' = -1
            /\ UNCHANGED thrown
    /\ UNCHANGED <<runs, output, lines, tokens, labels, cursor, executed, input,
                   dispatched, cleaned, pst, active, parked, call, dom>>

\* the catch block of run
Catch ==
    /\ pc = "thrown"
    /\ output' = Append(output, thrown) \o TraceLines(trace)
    /\ retval' = Num(1)
    /\ pc' = "returned"
    /\ UNCHANGED <<runs, abyss, trace, lines, line, tokens, labels, cursor,
                   executed, thrown, input, dispatched, cleaned, pst,
                   active, parked, call, dom>>

-----------------------------------------------------------------------------
(* The tokenizer on its own, one iteration of its loop at a time *)

TokenizerStart ==
    /\ pst.status = "idle"
    /\ cleaned' = Sanitize(input.text)
    /\ pst' = ParserStart(cleaned')
    /\ UNCHANGED <<runVars, input>>

TokenizerStep ==
    /\ ParserMore(cleaned, pst)
    /\ pst' = ParserStep(cleaned, pst)
    /\ UNCHANGED <<runVars, input, cleaned>>

\* a return that pushes the bits read of an unfinished token
TokenizerReturnFlushing ==
    /\ pst.status = "run"
    /\ ~ParserMore(cleaned, pst)
    /\ pst' = [pst EXCEPT !.status = "done",
                          !.tokens = IF pst.bits > 0 THEN Append(@, pst.value) ELSE @]
    /\ UNCHANGED <<runVars, input, cleaned>>

TokenizerReturn ==
    /\ pst.status = "run"
    /\ ~ParserMore(cleaned, pst)
    /\ pst' = [pst EXCEPT !.status = "done"]
    /\ UNCHANGED <<runVars, input, cleaned>>


-----------------------------------------------------------------------------
(* Inputs *)

\* all sequences over S of length at most n
SeqsUpTo(S, n) == UNION {[1..k -> S] : k \in 0..n}

RECURSIVE Flatten(_)
Flatten(ss) == IF ss = <<>> THEN <<>> ELSE Head(ss) \o Flatten(Tail(ss))

\* the token sequences of at most n instructions out of the set instrs
Programs(instrs, n) == {Flatten(p) : p \in SeqsUpTo(instrs, n)}

Parameters == -128..255

\* every opcode token 0..31 alone, a parameterized one with every parameter
SingleInstructions ==
    {<<op>> : op \in {o \in 0..31 : ~TakesParameter(o)}}
        \cup {<<op, p>> : op \in {o \in 0..31 : TakesParameter(o)},
                          p \in Parameters}

\* a fresh interpreter: new AWA5(), its reader backed by the array src
NoCall == [fn |-> "", v1 |-> Null, v2 |-> Null, ret |-> Null, done |-> FALSE]

\* a DOMReader between two reads: no listener on its button, no promise
NoDom == [phase |-> "none", listeners |-> 0, settled |-> Null, clicks |-> 0,
          events |-> <<>>]

\* new AWA5(), its reader holding src, and no call of run made yet
Constructed(src) ==
    /\ pc = "idle"
    /\ runs = 0
    /\ abyss = <<>>
    /\ trace = <<>>
    /\ output = <<>>
    /\ lines = src
    /\ line = -1
    /\ tokens = <<>>
    /\ labels = <<>>
    /\ cursor = 0
    /\ executed = 0
    /\ thrown = Null
    /\ retval = Null
    /\ dispatched = {}
    /\ cleaned = <<>>
    /\ pst = ParserIdle
    /\ active = 0
    /\ parked = <<>>
    /\ dom = NoDom

Fresh(src) ==
    /\ Constructed(src)
    /\ call = NoCall

-----------------------------------------------------------------------------
(* The tokenizer on texts written from token sequences and on free texts   *)

MaxInstrs == 2
MaxTail == 5

TokenizerInstrs ==
    {<<NOP>>, <<TRM>>, <<-1>>, <<BLO, -1>>, <<BLO, 255>>, <<LBL, -128>>,
     <<JMP, 5>>, <<-15, 16>>}

SourceChars == {"a", "w", "~", " "}

\* a text made dirty the way the sanitizer undoes: foreign characters, upper
\* case, line breaks for spaces
Dirty(txt) ==
    Flatten([i \in 1..Len(txt) |->
                CASE txt[i] = " " -> <<"\n", "x", " ">>
                  [] txt[i] = "a" -> <<"A", "5">>
                  [] OTHER        -> <<txt[i]>>])

TokenizerInputs ==
    {Written(ts) : ts \in SingleInstructions \cup Programs(TokenizerInstrs, MaxInstrs)}
        \cup {Text(txt) : txt \in SeqsUpTo(SourceChars, MaxTail)}
        \cup {Text(StartUnit \o txt) : txt \in SeqsUpTo(SourceChars, MaxTail)}
        \cup {Text(Dirty(Source(ts))) : ts \in Programs(TokenizerInstrs, MaxInstrs)}
        \cup UNION {{Text(SubSeq(Source(ts), 1, n)) : n \in 0..Len(Source(ts))} :
                        ts \in Programs(TokenizerInstrs, 1)}

MaxUnits == 7

\* the start of block followed by at most MaxUnits bit units, the sign unit
\* at any place among them
UnitTexts ==
    {Text(StartUnit \o Flatten(us)) :
         us \in SeqsUpTo({OneUnit, ZeroUnit, SignUnit}, MaxUnits)}

InitTokenizer ==
    /\ Fresh(<<>>)
    /\ input \in TokenizerInputs \cup UnitTexts

NextTokenizer == TokenizerStart \/ TokenizerStep \/ TokenizerReturn

SpecTokenizer == InitTokenizer /\ [][NextTokenizer]_vars


-----------------------------------------------------------------------------
(* One interpreter instance used for several runs *)

MaxRuns == 2

\* programs that between them end in every way a run can end
ReusePrograms ==
    { <<BLO, 1, BLO, 2, DD4, PR1>>,     \* writes "3", returns 0
      <<BLO, 7>>,                       \* returns 7
      <<BLO, 1, BLO, 2, SRN, 2>>,       \* returns a double bubble
      <<BLO, 1, POP>>,                  \* pops a single bubble
      <<R3D>>,                          \* reads a number
      <<BLO, 1, DD4>>,                  \* not enough bubbles
      <<BLO, 100, PRN>>,                \* no such letter
      <<BLO, 1, BLO, 2, MRG>>,          \* fails inside Abysser.merge
      <<SBM, 0>>,                       \* submerges on an empty abyss
      <<22>>,                           \* no such opcode
      <<LBL>>,                          \* a label without its parameter
      <<>> }

\* a program that never ends by itself
LoopProgram == <<LBL, 0, JMP, 0>>

ReuseTexts ==
    { <<>>, <<"w", "a">>, <<"a", "w", " ", "a">>, <<"a", " ", "w", "a">>,
      <<"x", "y">>, <<"A", "x", "W", "\n", "q", "A">>,
      <<"a", "-", "W", "a">>, <<" ", "~", "w", "a", "w", "a">>,
      Dirty(Source(<<BLO, 7>>)), StartUnit \o <<"w", "a", " ", "a">> }

ReuseInputs ==
    {Written(ts) : ts \in ReusePrograms \cup {LoopProgram}}
        \cup {Text(txt) : txt \in ReuseTexts}

ReaderSources == { <<>>, <<Str(<<"4", "2">>)>>, <<Str(<<"x">>), Str(<<"7">>)>> }

Init ==
    /\ \E src \in ReaderSources : Fresh(src)
    /\ input = Text(<<>>)

\* the host calls run; the program that exhausts the budget is given to the
\* instance as its first program only, which keeps the state space small
Submit ==
    \E in \in ReuseInputs :
        /\ runs < MaxRuns
        /\ in.of = LoopProgram /\ in.encoded => runs = 0
        /\ Run(in)

Next == Submit \/ PrePass \/ Dispatch \/ Finish \/ Catch

Spec == Init /\ [][Next]_vars

-----------------------------------------------------------------------------
(* One run of a fresh instance on a program of the budget family *)

LabelSample == {-128, -1, 0, 16, 17, 255}

BudgetInputs ==
    {Written(<<LBL, n, JMP, n>>) : n \in LabelSample}
        \cup {Written(<<JMP, n, LBL, n>>) : n \in LabelSample}

InitOnce ==
    /\ Fresh(<<>>)
    /\ input = Text(<<>>)

SubmitBudget == \E in \in BudgetInputs : runs = 0 /\ Run(in)

NextBudget == SubmitBudget \/ PrePass \/ Dispatch \/ Finish \/ Catch

SpecBudget == InitOnce /\ [][NextBudget]_vars

-----------------------------------------------------------------------------
(* One run of a fresh instance on a program that only jumps forwards: a    *)
(* head that ends in a jump, a middle, and a tail that may define a label. *)
(* -15 and -16 are JMP and LBL written with the sign unit.                 *)

JumpLabels == {0, 5, 16}
Operands == {0, 1}

JumpHeads ==
    {<<j, n>> : j \in {JMP, -15}, n \in JumpLabels}
        \cup {<<BLO, a, BLO, b, op, n>> :
                  a \in Operands, b \in Operands, op \in {EQL, LSS, GR8},
                  n \in JumpLabels}
        \cup {<<BLO, a, EQZ, n>> : a \in Operands, n \in JumpLabels}

JumpMiddles == { <<>>, <<NOP>>, <<BLO, 9>>, <<BLO, 16>>, <<-15, 16>> }

JumpTails ==
    { <<>>, <<NOP>> }
        \cup {<<l, k>> : l \in {LBL, -16}, k \in JumpLabels}
        \cup {<<LBL, k, BLO, 7>> : k \in JumpLabels}

JumpInputs ==
    {Written(h \o mid \o tl) : h \in JumpHeads, mid \in JumpMiddles, tl \in JumpTails}

SubmitJump == \E in \in JumpInputs : runs = 0 /\ Run(in)

NextJump == SubmitJump \/ PrePass \/ Dispatch \/ Finish \/ Catch

SpecJump == InitOnce /\ [][NextJump]_vars

-----------------------------------------------------------------------------
(* One run of a fresh instance on BLO x; BLO y; 4DD; PR1 and on the        *)
(* programs that end with a scalar, a vector or no bubble at all           *)

OperandSample == {-128, -1, 0, 1, 2, 127, 255}

AddProgram(x, y) == <<BLO, x, BLO, y, DD4, PR1>>

ExecInputs ==
    {Written(AddProgram(x, y)) : x \in Parameters, y \in OperandSample}
        \cup {Written(AddProgram(x, y)) : x \in OperandSample, y \in Parameters}
        \cup {Written(<<BLO, x>>) : x \in Parameters}
        \cup {Written(<<BLO, x, BLO, y, SRN, n>>) :
                  x \in OperandSample, y \in OperandSample, n \in 0..3}
        \cup {Written(<<BLO, x, POP>>) : x \in OperandSample}

SubmitExec == \E in \in ExecInputs : runs = 0 /\ Run(in)

NextExec == SubmitExec \/ PrePass \/ Dispatch \/ Finish \/ Catch

SpecExec == InitOnce /\ [][NextExec]_vars

-----------------------------------------------------------------------------
(* One run of a fresh instance on a program that builds an abyss, executes *)
(* one instruction on it and goes on to BLO 9; LBL 5, so that a jump to 5  *)
(* is told from a jump to the undefined 7 by the bubble 9.                 *)

Bits == {0, 1}

Vector(a, b) == <<BLO, a, BLO, b, SRN, 2>>

AbyssBuilders ==
    { <<>>, <<SRN, 0>>, <<BLO, 0, SRN, 0>>, <<SRN, 0, BLO, 0>>, <<SBM, 0>>,
      <<RED>>, <<R3D>>, <<BLO, 1, R3D>>,
      <<BLO, 1, BLO, 0, BLO, 1, SRN, 3>>,
      <<BLO, 1, BLO, 0, BLO, 1, SRN, 3, BLO, 0, BLO, 1, SRN, 2>>,
      <<BLO, 1, DPL>>, <<BLO, 0, BLO, 1, SRN, 2, DPL>>, <<SRN, 0, DPL>> }
        \cup {<<BLO, a>> : a \in {-1, 0, 1}}
        \cup {<<BLO, a, BLO, b>> : a \in Bits, b \in Bits}
        \cup {<<BLO, 7>> \o Vector(a, b) : a \in Bits, b \in Bits}
        \cup {Vector(0, 1) \o <<BLO, a>> : a \in Bits}
        \cup {<<BLO, a>> \o Vector(0, 0) : a \in Bits}
        \cup {Vector(a, b) \o Vector(c, d) :
                  a \in Bits, b \in Bits, c \in Bits, d \in Bits}
        \cup { <<BLO, 1, BLO, 2, BLO, 3>>, <<BLO, 1, BLO, 2, BLO, 3, BLO, 4>>,
               <<BLO, 1>> \o Vector(2, 3) \o <<BLO, 4>> }

OneInstruction ==
    {<<op>> : op \in {NOP, PRN, PR1, RED, R3D, POP, DPL, MRG, DD4, SUB, MUL, DIV,
                      CNT, TRM}}
        \cup {<<BLO, 3>>, <<LBL, 7>>}
        \cup {<<SBM, k>> : k \in {0, 1, 2, 3, 5}}
        \cup {<<SRN, n>> : n \in 0..3}
        \cup {<<j, n>> : j \in {JMP, EQL, LSS, GR8, EQZ}, n \in {5, 7}}

OpsTail == <<BLO, 9, LBL, 5>>

OpsInputs ==
    {Written(b \o op \o OpsTail) : b \in AbyssBuilders, op \in OneInstruction}

SubmitOps == \E in \in OpsInputs : runs = 0 /\ Run(in)

NextOps == SubmitOps \/ PrePass \/ Dispatch \/ Finish \/ Catch

SpecOps == Init /\ [][NextOps]_vars

(* The division helper called on its own with the trace of a fresh instance *)

MaxOperand == 12
Operand == -MaxOperand..MaxOperand

InitDiv ==
    /\ Constructed(<<>>)
    /\ input = Text(<<>>)
    /\ \E x \in Operand, y \in Operand :
           call = [fn |-> "Arith.bubblediv", v1 |-> Num(x), v2 |-> Num(y),
                   ret |-> Null, done |-> FALSE]

CallBubblediv ==
    /\ call.fn = "Arith.bubblediv"
    /\ ~call.done
    /\ \E after \in {ArithBubblediv([ab |-> abyss, tr |-> trace, cur |-> cursor,
                                       res |-> Null, out |-> output, ln |-> line,
                                       err |-> Null], call.v1, call.v2)} :
           /\ call' = [call EXCEPT !.ret = after.res, !.done = TRUE]
           /\ trace' = after.tr
    /\ UNCHANGED <<pc, runs, abyss, output, lines, line, tokens, labels, cursor,
                   executed, thrown, retval, input, dispatched, cleaned, pst,
                   active, parked, dom>>

NextDiv == CallBubblediv

SpecDiv == InitDiv /\ [][NextDiv]_vars

(* One run of a fresh instance whose reader was built on an array of lines *)

MaxLine == 3
LineChars == {"4", "2", "-", " ", "x"}

\* the backing arrays: no line, one text of up to MaxLine characters, one
\* integer, and two lines
ReadSources ==
    {<<>>}
        \cup {<<Str(txt)>> : txt \in SeqsUpTo(LineChars, MaxLine)}
        \cup {<<Num(n)>> : n \in {-3, 0, 7}}
        \cup {<<Str(<<"4">>), Str(<<"2">>)>>, <<Str(<<"a", "w">>), Str(<<"x">>)>>}

ReadPrograms == { <<R3D>>, <<RED>>, <<R3D, R3D>>, <<RED, PRN>> }

InitRead ==
    /\ \E src \in ReadSources : Fresh(src)
    /\ input = Text(<<>>)

SubmitRead == \E ts \in ReadPrograms : runs = 0 /\ Run(Written(ts))

NextRead == SubmitRead \/ PrePass \/ Dispatch \/ Finish \/ Catch

SpecRead == InitRead /\ [][NextRead]_vars

-----------------------------------------------------------------------------
(* One run of a fresh instance on a loop that counts from 0 to the number  *)
(* it reads, three dispatches for every turn after the three that set it   *)
(* up, followed by a tail of at most two instructions                      *)

CountedLoop == <<R3D, BLO, 0, LBL, 0, BLO, 1, DD4, LSS, 0>>

LimitTails == { <<>>, <<TRM>>, <<NOP>>, <<NOP, TRM>>, <<NOP, NOP>> }

\* 3 + 3 * 3332 is 9999
LimitCounts == {2, 3332}

InitLimit ==
    /\ \E n \in LimitCounts : Fresh(<<Str(NumberChars(n))>>)
    /\ input = Text(<<>>)

SubmitLimit == \E t \in LimitTails : runs = 0 /\ Run(Written(CountedLoop \o t))

NextLimit == SubmitLimit \/ PrePass \/ Dispatch \/ Finish \/ Catch

SpecLimit == InitLimit /\ [][NextLimit]_vars

-----------------------------------------------------------------------------
(* One run of a fresh instance on PRN of a scalar of every value a         *)
(* parameter can have, and of vectors with indices in and out of the       *)
(* alphabet                                                                *)

LetterSample == {-1, 0, 10, 63, 64, 65}

PrintPrograms ==
    {<<BLO, v, PRN>> : v \in Parameters}
        \cup {Vector(a, b) \o <<PRN>> : a \in LetterSample, b \in LetterSample}

SubmitPrint == \E ts \in PrintPrograms : runs = 0 /\ Run(Written(ts))

NextPrint == SubmitPrint \/ PrePass \/ Dispatch \/ Finish \/ Catch

SpecPrint == InitOnce /\ [][NextPrint]_vars

-----------------------------------------------------------------------------
(* Calls of run that overlap.  run, interpreter and InOut.read are async
   functions: a call executes until its first await and gives the control
   back to the host; what follows an await is a continuation that is executed
   later, when nothing else is executing, in the order in which the awaited
   promises were settled.  pc = "idle" or "returned" is the empty call stack. *)

\* the locals of the executing call, saved in a continuation
Continuation(at, res, err) ==
    [id |-> active, at |-> at, tokens |-> tokens, labels |-> labels,
     cursor |-> cursor, executed |-> executed, input |-> input,
     dispatched |-> dispatched, raw |-> FALSE, got |-> Null,
     res |-> res, err |-> err]

Reading ==
    /\ pc = "loop"
    /\ cursor < Len(tokens)
    /\ OpcodesGet(tokens[cursor + 1]) \in {RED, R3D}

StackEmpty == pc \in {"idle", "returned"}

\* an iteration of the main loop on an opcode that does not read
DispatchSync ==
    /\ ~Reading
    /\ Dispatch

\* an iteration on RED or R3D up to `await this.stdin.read()`: the frames of
\* the opcode and of InOut.read are pushed and the reader has advanced
Await ==
    /\ Reading
    /\ trace' = trace \o <<OpcodesName(OpcodesGet(tokens[cursor + 1])), "InOut.read">>
    /\ line' = line + 1
    /\ parked' = Append(parked,
                    [Continuation("read", Null, Null) EXCEPT
                        !.raw = OpcodesGet(tokens[cursor + 1]) = R3D,
                        !.got = ArrayReaderRead(lines, line)])
    /\ pc' = "idle"
    /\ UNCHANGED <<runs, abyss, output, lines, tokens, labels, cursor, executed,
                   thrown, retval, input, dispatched, cleaned, pst, active, call, dom>>

\* the rest of InOut.read: its promise is fulfilled with a bubble or rejected
ReadReturns ==
    /\ StackEmpty
    /\ parked # <<>>
    /\ Head(parked).at = "read"
    /\ \E after \in {LET c  == Head(parked)
                          m1 == [ab |-> abyss, tr |-> trace, cur |-> c.cursor,
                                 res |-> Null, out |-> output, ln |-> line,
                                 err |-> Null]
                      IN  IF c.raw THEN InOutReadRawAwaited(m1, c.got)
                                   ELSE InOutReadAwaited(m1, c.got)} :
           /\ trace' = after.tr
           /\ parked' = Append(Tail(parked),
                           [Head(parked) EXCEPT !.at = "loop", !.res = after.res,
                                                !.err = after.err])
    /\ UNCHANGED <<pc, runs, abyss, output, lines, line, tokens, labels, cursor,
                   executed, thrown, retval, input, dispatched, cleaned, pst,
                   active, call, dom>>

\* interpreter after `await inout.read(trace)`: the rest of the iteration
LoopResumes ==
    /\ StackEmpty
    /\ parked # <<>>
    /\ Head(parked).at = "loop"
    /\ LET c == Head(parked) IN
       /\ parked' = Tail(parked)
       /\ active' = c.id
       /\ tokens' = c.tokens
       /\ labels' = c.labels
       /\ input' = c.input
       /\ IF c.err # Null
          THEN /\ pc' = "thrown"
               /\ thrown' = c.err
               /\ cursor' = c.cursor
               /\ executed' = c.executed
               /\ dispatched' = c.dispatched
               /\ UNCHANGED <<trace, abyss>>
          ELSE /\ trace' = Front(trace)
               /\ abyss' = PushResult(abyss, c.res)
               /\ cursor' = c.cursor + 1
               /\ executed' = c.executed + 1
               /\ dispatched' = c.dispatched \cup {c.cursor}
               /\ IF executed' >= oplimit
                  THEN pc' = "thrown" /\ thrown' = LimitError("too many operations")
                  ELSE pc' = "loop" /\ thrown' = Null
    /\ UNCHANGED <<runs, output, lines, line, retval, cleaned, pst, call, dom>>

\* the end of interpreter: its promise is fulfilled with the value on top
Ends ==
    /\ pc = "loop"
    /\ cursor >= Len(tokens)
    /\ IF Len(abyss) > 0 /\ NotABubble(Last(abyss))
       THEN /\ pc' = "thrown"
            /\ thrown' = NoMethod
            /\ abyss' = Front(abyss)
            /\ UNCHANGED <<trace, parked>>
       ELSE /\ pc' = "idle"
            /\ parked' = Append(parked,
                            Continuation("run",
                                IF Len(abyss) > 0 THEN BubbleValue(Last(abyss))
                                                  ELSE Num(0),
                                Null))
            /\ abyss' = <<>>
            /\ trace' = Front(trace)
            /\ UNCHANGED thrown
    /\ UNCHANGED <<runs, output, lines, line, tokens, labels, cursor, executed,
                   retval, input, dispatched, cleaned, pst, active, call, dom>>

\* the error in flight was thrown by parser: pst is the tokenizer state of
\* the latest call of run
ParserFailed == pst.status = "error" /\ active = runs

\* an error thrown inside interpreter: its promise is rejected
Rejects ==
    /\ pc = "thrown"
    /\ ~ParserFailed
    /\ parked' = Append(parked, Continuation("run", Null, thrown))
    /\ pc' = "idle"
    /\ UNCHANGED <<runs, abyss, trace, output, lines, line, tokens, labels,
                   cursor, executed, thrown, retval, input, dispatched, cleaned,
                   pst, active, call, dom>>

\* an error thrown by parser is caught by run at once
CatchParser ==
    /\ ParserFailed
    /\ Catch

\* run after `await interpreter(...)`: the reset of the reader and the
\* return, or the catch block
RunReturns ==
    /\ StackEmpty
    /\ parked # <<>>
    /\ Head(parked).at = "run"
    /\ LET c == Head(parked) IN
       /\ parked' = Tail(parked)
       /\ active' = c.id
       /\ tokens' = c.tokens
       /\ labels' = c.labels
       /\ input' = c.input
       /\ cursor' = c.cursor
       /\ executed' = c.executed
       /\ dispatched' = c.dispatched
       /\ thrown' = c.err
       /\ pc' = "returned"
       /\ IF c.err # Null
          THEN /\ output' = Append(output, c.err) \o TraceLines(trace)
               /\ retval' = Num(1)
               /\ UNCHANGED line
          ELSE /\ line' = -1
               /\ retval' = c.res
               /\ UNCHANGED output
    /\ UNCHANGED <<runs, abyss, trace, lines, cleaned, pst, call, dom>>

MaxOverlap == 2

OverlapPrograms ==
    { <<BLO, 1, R3D, DD4>>,       \* 1 + the number read
      <<RED, PRN>>,               \* echoes the line read
      <<BLO, 2, BLO, 3>>,         \* returns 3
      <<POP>>,                    \* needs a bubble
      <<R3D, R3D, DD4>> }         \* the sum of two numbers read

OverlapInputs ==
    {Written(ts) : ts \in OverlapPrograms} \cup {Text(<<"x", "y">>)}

InitOverlap ==
    /\ Fresh(<<Str(<<"7">>), Str(<<"a", "w">>)>>)
    /\ input = Text(<<>>)

\* the host calls run whenever nothing is executing
SubmitOverlap ==
    \E in \in OverlapInputs :
        /\ runs < MaxOverlap
        /\ Run(in)

NextOverlap ==
    \/ SubmitOverlap \/ PrePass \/ DispatchSync \/ Await \/ Ends \/ Rejects
    \/ CatchParser \/ ReadReturns \/ LoopResumes \/ RunReturns

SpecOverlap == InitOverlap /\ [][NextOverlap]_vars

-----------------------------------------------------------------------------
(* Runs of an instance whose reader is a DOMReader.  read() adds a click   *)
(* listener to the button, dispatches 'awa5:prompt' and awaits its         *)
(* promise; a click calls the listener, which resolves the promise with    *)
(* the value of the node; the continuation dispatches 'awa5:processing',   *)
(* removes the listener and returns the value.  The host clicks from a     *)
(* handler of the prompt event, or while nothing is executing.             *)

\* everything but the DOMReader
notDom == <<pc, runs, abyss, trace, output, lines, line, tokens, labels, cursor,
            executed, thrown, retval, input, dispatched, cleaned, pst,
            active, parked, call>>

\* the machine at the cursor, for the operators of InOut
MachineAtRead ==
    [ab |-> abyss, tr |-> trace, cur |-> cursor, res |-> Null, out |-> output,
     ln |-> line, err |-> Null]

\* RED or R3D up to the executor of the promise in DOMReader.read
DomListen ==
    /\ Reading
    /\ dom.phase = "none"
    /\ trace' = trace \o <<OpcodesName(OpcodesGet(tokens[cursor + 1])), "InOut.read">>
    /\ dom' = [dom EXCEPT !.phase = "listening", !.listeners = @ + 1,
                          !.settled = Null, !.clicks = 0,
                          !.events = Append(@, "listen")]
    /\ UNCHANGED <<pc, runs, abyss, output, lines, line, tokens, labels, cursor,
                   executed, thrown, retval, input, dispatched, cleaned, pst,
                   active, parked, call>>

\* this.backing.dispatchEvent(prompt)
DomPrompt ==
    /\ dom.phase = "listening"
    /\ dom' = [dom EXCEPT !.phase = "prompted",
                          !.events = Append(@, "awa5:prompt")]
    /\ UNCHANGED notDom

\* await promise : the interpreter is suspended
DomSuspend ==
    /\ dom.phase = "prompted"
    /\ dom' = [dom EXCEPT !.phase = "suspended", !.events = Append(@, "suspend")]
    /\ UNCHANGED notDom

MaxClicks == 2

DomValues == { Str(<<"7">>), Str(<<"a", "w">>), Str(<<"x">>) }

\* a click on the button while the node holds the text v: every listener on
\* the button is called, and the first call resolves the promise
Click(v) ==
    /\ \/ dom.phase = "prompted"
       \/ dom.phase = "suspended" /\ dom.settled = Null
       \/ dom.phase = "none" /\ StackEmpty
    /\ dom.clicks < MaxClicks
    /\ dom' = [dom EXCEPT !.clicks = @ + 1,
                          !.events = Append(@, "click"),
                          !.settled = IF dom.listeners > 0 /\ @ = Null THEN v ELSE @]
    /\ UNCHANGED notDom

\* a read that does not dispatch the processing event
DomProcessingSilent ==
    /\ dom.phase = "suspended"
    /\ dom.settled # Null
    /\ dom' = [dom EXCEPT !.phase = "processing"]
    /\ UNCHANGED notDom

\* this.backing.dispatchEvent(processing), once the promise is resolved
DomProcessing ==
    /\ dom.phase = "suspended"
    /\ dom.settled # Null
    /\ dom' = [dom EXCEPT !.phase = "processing",
                          !.events = Append(@, "awa5:processing")]
    /\ UNCHANGED notDom

\* a read that leaves its listener on the button
DomUnlistenNot ==
    /\ dom.phase = "processing"
    /\ dom' = [dom EXCEPT !.phase = "unlistened", !.events = Append(@, "unlisten")]
    /\ UNCHANGED notDom

\* this.button.removeEventListener('click', listener)
DomUnlisten ==
    /\ dom.phase = "processing"
    /\ dom' = [dom EXCEPT !.phase = "unlistened", !.listeners = @ - 1,
                          !.events = Append(@, "unlisten")]
    /\ UNCHANGED notDom

\* return value : the rest of InOut.read and of the iteration of the loop
DomReturns ==
    /\ dom.phase = "unlistened"
    /\ dom' = [dom EXCEPT !.phase = "none", !.settled = Null,
                          !.events = Append(@, "value")]
    /\ \E after \in {IF OpcodesGet(tokens[cursor + 1]) = R3D
                     THEN InOutReadRawAwaited(MachineAtRead, dom.settled)
                     ELSE InOutReadAwaited(MachineAtRead, dom.settled)} :
           /\ output' = after.out
           /\ line' = after.ln
           /\ dispatched' = dispatched \cup {cursor}
           /\ IF after.err # Null
              THEN /\ pc' = "thrown"
                   /\ thrown' = after.err
                   /\ abyss' = after.ab
                   /\ trace' = after.tr
                   /\ UNCHANGED <<cursor, executed>>
              ELSE /\ trace' = Front(after.tr)
                   /\ abyss' = PushResult(after.ab, after.res)
                   /\ cursor' = cursor + 1
                   /\ executed' = executed + 1
                   /\ IF executed' >= oplimit
                      THEN pc' = "thrown" /\ thrown' = LimitError("too many operations")
                      ELSE pc' = "loop" /\ thrown' = Null
    /\ UNCHANGED <<runs, lines, tokens, labels, retval, input, cleaned, pst,
                   active, parked, call>>

MaxDomRuns == 1

DomPrograms == { <<R3D>>, <<RED, PRN>>, <<R3D, R3D, DD4>> }

SubmitDom == \E ts \in DomPrograms : runs < MaxDomRuns /\ Run(Written(ts))

NextDom ==
    \/ SubmitDom \/ PrePass \/ DispatchSync \/ Finish \/ Catch
    \/ DomListen \/ DomPrompt \/ DomSuspend \/ (\E v \in DomValues : Click(v))
    \/ DomProcessing \/ DomUnlisten \/ DomReturns

SpecDom == InitOnce /\ [][NextDom]_vars

-----------------------------------------------------------------------------
(* One run of a fresh instance on a program whose last token is an opcode  *)
(* that takes a parameter, written with or without the sign unit, after a  *)
(* prefix that builds bubbles, writes, terminates or jumps                 *)

LastPrefixes ==
    { <<>>, <<BLO, 1, BLO, 1>>, <<BLO, 1, PR1>>, <<TRM>>, <<NOP, BLO, 2, PR1, TRM>>,
      <<-15, 5>>, <<BLO, 1, BLO, 1, -12, 5>> }

LastOpcodes ==
    {op : op \in {BLO, SBM, SRN, LBL, JMP, EQL, LSS, GR8, EQZ}}
        \cup {op - 32 : op \in {BLO, SBM, SRN, LBL, JMP, EQL, LSS, GR8, EQZ}}

LastInputs == {Written(pre \o <<op>>) : pre \in LastPrefixes, op \in LastOpcodes}

SubmitLast == \E in \in LastInputs : runs = 0 /\ Run(in)

NextLast == SubmitLast \/ PrePass \/ Dispatch \/ Finish \/ Catch

SpecLast == InitOnce /\ [][NextLast]_vars

(* Programs with jumps in every direction, run once on a fresh instance whose
   reader holds one line *)

LoopPrograms ==
    { <<LBL, 0, JMP, 0>>,                                     \* backward, for ever
      <<BLO, 0, LBL, 0, EQZ, 0>>,                             \* conditional, for ever
      <<BLO, 1, LBL, 0, EQZ, 0>>,                             \* conditional, not taken
      <<LBL, 0, BLO, 1, POP, JMP, 0>>,                        \* push and pop, for ever
      <<BLO, 2, LBL, 0, BLO, -1, DD4, EQZ, 1, JMP, 0, LBL, 1>>, \* counts down and ends
      <<JMP, 1, LBL, 0, TRM, LBL, 1, JMP, 0>>,                \* forward, backward, TRM
      <<LBL, 0, JMP, 1, LBL, 2, JMP, 0, LBL, 1, JMP, 2>>,     \* three labels, for ever
      <<LBL, 0, BLO, 0, BLO, 0, EQL, 1, LBL, 1, POP, POP, LSS, 0, JMP, 0>>, \* fails in the loop
      <<LBL, 0, R3D, PR1, JMP, 0>>,                           \* reads until the reader is empty
      <<LBL, 0, JMP, 7, GR8, 0, JMP, 0>>,                     \* undefined label, then fails
      <<JMP, 0, BLO, 1, LBL, 0>> }                            \* forward only

LoopInputs == {Written(ts) : ts \in LoopPrograms}

InitLoops ==
    /\ Fresh(<<Str(<<"7">>)>>)
    /\ input = Text(<<>>)

SubmitLoops == \E in \in LoopInputs : runs = 0 /\ Run(in)

NextLoops == SubmitLoops \/ PrePass \/ Dispatch \/ Finish \/ Catch

\* a run that has been called goes on: nothing but a read suspends it, and
\* the reads return
SpecLoops ==
    /\ InitLoops
    /\ [][NextLoops]_vars
    /\ WF_vars(PrePass \/ Dispatch \/ Finish \/ Catch)

-----------------------------------------------------------------------------
(* Properties of the tokenizer *)

\* ts is a sequence of opcode tokens in 0..31, each parameterized one followed
\* by exactly one parameter in -128..255
RECURSIVE WellFormedFrom(_, _)
WellFormedFrom(ts, i) ==
    IF i > Len(ts) THEN TRUE
    ELSE /\ ts[i] \in 0..31
         /\ IF TakesParameter(ts[i])
            THEN /\ i + 1 <= Len(ts)
                 /\ ts[i + 1] \in Parameters
                 /\ WellFormedFrom(ts, i + 2)
            ELSE WellFormedFrom(ts, i + 1)

WellFormed(ts) == WellFormedFrom(ts, 1)

\* C8: a well-formed token sequence written in the bit grammar is decoded
\* without an error, and once the tokenizer returns its tokens are exactly the
\* sequence written.
C8_RoundTrip ==
    (input.encoded /\ WellFormed(input.of)) =>
        /\ pst.status # "error"
        /\ pst.status = "done" => pst.tokens = input.of

C8_Witness ==
    /\ input.encoded
    /\ WellFormed(input.of)
    /\ pst.status = "done"
    /\ Len(pst.tokens) >= 4
    /\ \E i \in 1..Len(pst.tokens) : pst.tokens[i] < -1

\* the positions of ts that hold a parameter: those directly after an opcode
\* token that takes one
RECURSIVE ParameterPositionsFrom(_, _)
ParameterPositionsFrom(ts, i) ==
    IF i > Len(ts) THEN {}
    ELSE IF TakesParameter(ts[i] % 32)
         THEN {i + 1} \cup ParameterPositionsFrom(ts, i + 2)
         ELSE ParameterPositionsFrom(ts, i + 1)

ParameterPositions(ts) == ParameterPositionsFrom(ts, 1) \cap (1..Len(ts))

\* the bit units of the text between two offsets, as "1", "0" and "~";
\* "?" is whatever is no unit
RECURSIVE UnitsBetween(_, _, _)
UnitsBetween(txt, a, b) ==
    IF a >= b THEN <<>>
    ELSE IF Substring(txt, a, a + 2) = OneUnit
         THEN <<"1">> \o UnitsBetween(txt, a + 2, b)
    ELSE IF Substring(txt, a, a + 4) = ZeroUnit
         THEN <<"0">> \o UnitsBetween(txt, a + 4, b)
    ELSE IF Substring(txt, a, a + 4) = SignUnit
         THEN <<"~">> \o UnitsBetween(txt, a + 4, b)
    ELSE <<"?">>

\* the number the units spell: the sign first sets all ones
RECURSIVE UnitsValue(_, _)
UnitsValue(us, acc) ==
    IF us = <<>> THEN acc
    ELSE UnitsValue(Tail(us), CASE Head(us) = "1" -> 2 * acc + 1
                                [] Head(us) = "0" -> 2 * acc
                                [] OTHER -> -1)

\* where token i of the machine ends in the text
TokenEnd(st, i) == IF i < Len(st.tokens) THEN st.from[i + 1] ELSE st.start

\* C9: every token that directly follows a parameterized opcode token was
\* built from exactly 8 bit units, every other token from exactly 5, and the
\* tokens are the units of the text read in order, each token starting where
\* the one before it ended.
C9_TokenWidths ==
    pst.status # "idle" =>
        \A i \in 1..Len(pst.tokens) :
            LET width == IF i \in ParameterPositions(pst.tokens) THEN 8 ELSE 5
                units == UnitsBetween(cleaned, pst.from[i], TokenEnd(pst, i))
            IN  /\ pst.built[i] = width
                /\ Len(units) = width
                /\ UnitsValue(units, 0) = pst.tokens[i]
                /\ pst.from[i] < TokenEnd(pst, i)
                /\ i = 1 => pst.from[i] = Search(cleaned) + 3

C9_Witness ==
    /\ pst.status = "done"
    /\ Len(pst.tokens) >= 4
    /\ \E i \in ParameterPositions(pst.tokens) :
           /\ TakesParameter(pst.tokens[i] % 32)
           /\ i < Len(pst.tokens)
           /\ pst.built[i + 1] = 5
    /\ \E i \in 1..Len(pst.tokens) : pst.tokens[i] < 0 /\ pst.built[i] = 5

-----------------------------------------------------------------------------
(* Properties of a run *)

Returned == pc = "returned"
Failed == thrown # Null
TooManyOperations == Error("LimitError", "too many operations")

\* LBL n; JMP n
SelfJump(ts) == Len(ts) = 4 /\ ts[1] = LBL /\ ts[3] = JMP /\ ts[2] = ts[4]

\* C1: the program LBL n; JMP n never ends in any way but the limit error
\* 'too many operations'; the counter of executed operations is 10000 when
\* that error is raised and below 10000 as long as the loop goes on.
C1_BudgetExact ==
    (input.encoded /\ SelfJump(input.of)) =>
        /\ executed <= 10000
        /\ pc = "loop" => executed < 10000
        /\ pc = "thrown" => thrown = TooManyOperations
        /\ Returned => thrown = TooManyOperations /\ retval = Num(1)
        /\ thrown = TooManyOperations => executed = 10000

C1_Witness ==
    /\ input.encoded
    /\ SelfJump(input.of)
    /\ pc = "thrown"
    /\ thrown = TooManyOperations
    /\ executed = 10000
    /\ dispatched = {0, 2}

\* C2: whenever run has returned, with a result or with the failure
\* sentinel, the abyss of the instance is empty.
C2_AbyssEmptyAfterRun == Returned => abyss = <<>>

\* BLO 1; 4DD has failed for want of a second bubble, and the bubble is
\* still in the abyss when run has returned
C2_Diverges ==
    /\ input = Written(<<BLO, 1, DD4>>)
    /\ Returned
    /\ retval = Num(1)
    /\ thrown = OpcodeError(DD4, "not enough bubbles")
    /\ abyss = <<Bubble(<<Num(1)>>)>>

\* C3: a run that aborted returns 1, and the last texts of the output sink are
\* the error followed by every frame of the trace, the last pushed frame first
\* and numbered by its depth.
C3_FailureReport ==
    (Returned /\ Failed) =>
        LET n    == Len(trace)
            base == Len(output) - n - 1
        IN  /\ retval = Num(1)
            /\ base >= 0
            /\ output[base + 1] = thrown
            /\ \A k \in 1..n :
                   output[base + 1 + k] = FrameLine(n - k, trace[n - k + 1])

C3_Witness ==
    /\ Returned
    /\ thrown.t = "err"
    /\ thrown.v[1] = "OpcodeError"
    /\ retval = Num(1)
    /\ Len(trace) >= 2
    /\ trace[1] # trace[Len(trace)]
    /\ Len(output) = Len(trace) + 1

\* the logical value of a bubble: 0 of an empty backing, the element of a
\* backing of one, the sequence of the elements of a longer one
LogicalValue(b) ==
    CASE Len(b.v) = 0 -> Num(0)
      [] Len(b.v) = 1 -> b.v[1]
      [] OTHER        -> Arr(b.v)

\* C4: a run that ends normally returns the logical value of the bubble that
\* is on top of the abyss when the last instruction has been executed, and 0
\* when the abyss is empty then.
C4_ResultExtraction ==
    [][(Finish /\ pc' = "returned") =>
          retval' = IF abyss = <<>> THEN Num(0) ELSE LogicalValue(Last(abyss))]_vars

C4_Witness ==
    /\ Returned
    /\ ~Failed
    /\ retval.t = "arr"
    /\ Len(retval.v) = 2

\* the sanitized text holds the start marker somewhere
HasMarker(txt) ==
    \E i \in 1..(Len(txt) - 2) : txt[i] = "a" /\ txt[i + 1] = "w" /\ txt[i + 2] = "a"

\* C10: when the sanitized text of a run holds no 'awa', the tokenizer has
\* failed with the syntax error 'missing start of block' and has no tokens,
\* no instruction is executed, and run returns the failure sentinel.
C10_MissingStart ==
    (pc # "idle" /\ ~HasMarker(cleaned)) =>
        /\ pst.status = "error"
        /\ pst.error = Error("SyntaxError", "missing start of block")
        /\ pst.tokens = <<>>
        /\ tokens = <<>>
        /\ thrown = pst.error
        /\ pc \in {"thrown", "returned"}
        /\ executed = 0
        /\ dispatched = {}
        /\ Returned => retval = Num(1)

C10_Witness ==
    /\ Returned
    /\ ~HasMarker(cleaned)
    /\ Len(input.text) > Len(cleaned)
    /\ Len(cleaned) >= 3
    /\ retval = Num(1)
    /\ runs = 2

-----------------------------------------------------------------------------
(* Properties of the jumps.  A program is read as its writer means it: a   *)
(* token is an opcode unless it stands behind an opcode that takes a       *)
(* parameter, and an opcode is its token modulo 32.                        *)

OpcodePositions(ts) == (1..Len(ts)) \ ParameterPositions(ts)

\* the positions of the definitions LBL n in ts
LabelDefinitions(ts, n) ==
    {i \in OpcodePositions(ts) : ts[i] % 32 = LBL /\ i < Len(ts) /\ ts[i + 1] = n}

\* the position of the first jump of ts: the programs of the family have one
\* jump in their head
FirstJump(ts) ==
    LET js == {i \in OpcodePositions(ts) : ts[i] % 32 \in {JMP, EQL, LSS, GR8, EQZ}}
    IN  CHOOSE i \in js : \A j \in js : i <= j

\* ts starts with JMP n and defines LBL n once, later
ForwardJump(ts) ==
    /\ Len(ts) >= 2
    /\ ts[1] % 32 = JMP
    /\ Cardinality(LabelDefinitions(ts, ts[2])) = 1
    /\ \A i \in LabelDefinitions(ts, ts[2]) : i > 2

\* the cursor of the instruction behind the parameter of the LBL at position i
AfterLabel(ts) == (CHOOSE i \in LabelDefinitions(ts, ts[2]) : TRUE) + 1

\* C5: the JMP n at the start of a program that defines LBL n later moves the
\* cursor to the instruction behind the parameter of that LBL.
C5_ForwardJump ==
    [][(input.encoded /\ ForwardJump(input.of) /\ Dispatch /\ cursor = 0) =>
          (pc' = "loop" /\ cursor' = AfterLabel(input.of))]_vars

\* every opcode of ts is written without the sign unit
PositiveOpcodes(ts) == \A i \in OpcodePositions(ts) : ts[i] \in 0..31

\* the same for the programs whose opcodes are all written without the sign
\* unit, which the label pre-pass reads as the dispatch loop does
ForwardJumpOfPositiveOpcodes ==
    [][(input.encoded /\ PositiveOpcodes(input.of) /\ ForwardJump(input.of)
            /\ Dispatch /\ cursor = 0) =>
          (pc' = "loop" /\ cursor' = AfterLabel(input.of))]_vars

\* JMP 5; JMP 16 (written with the sign unit); LBL 5 : the jump has been
\* executed and the cursor stands on the instruction between it and the label
C5_Diverges ==
    /\ input = Written(<<JMP, 5, -15, 16, LBL, 5>>)
    /\ pc = "loop"
    /\ executed = 1
    /\ cursor = 2

\* the parameter of the first jump of ts is the identifier of no label
UndefinedTarget(ts) ==
    /\ \E i \in OpcodePositions(ts) : ts[i] % 32 \in {JMP, EQL, LSS, GR8, EQZ}
    /\ FirstJump(ts) < Len(ts)
    /\ LabelDefinitions(ts, ts[FirstJump(ts) + 1]) = {}

\* C6: a jump whose parameter names no label of the program does not fail,
\* and leaves the cursor on the instruction behind its parameter.
C6_UndefinedLabel ==
    [][(input.encoded /\ UndefinedTarget(input.of) /\ Dispatch
            /\ cursor = FirstJump(input.of) - 1) =>
          (pc' = "loop" /\ cursor' = cursor + 2)]_vars

\* the same for the programs whose opcodes are all written without the sign
\* unit
UndefinedLabelOfPositiveOpcodes ==
    [][(input.encoded /\ PositiveOpcodes(input.of) /\ UndefinedTarget(input.of)
            /\ Dispatch /\ cursor = FirstJump(input.of) - 1) =>
          (pc' = "loop" /\ cursor' = cursor + 2)]_vars

\* JMP 0; JMP 16 (written with the sign unit); NOP : no label is defined, and
\* the jump has moved the cursor to the end of the program
C6_Diverges ==
    /\ input = Written(<<JMP, 0, -15, 16, NOP>>)
    /\ pc = "loop"
    /\ executed = 1
    /\ cursor = 5

\* the program is BLO x; BLO y; 4DD; PR1
IsAddProgram(ts) ==
    Len(ts) = 6 /\ ts = AddProgram(ts[2], ts[4])

\* the decimal text of an integer
Decimal(n) == Str(IF n < 0 THEN <<"-">> \o NatChars(-n) ELSE NatChars(n))

\* C7: when run has returned from BLO x; BLO y; 4DD; PR1, the last text of
\* the output sink is the decimal text of x + y, the abyss is empty and the
\* value returned is 0.
C7_AddAndPrint ==
    (input.encoded /\ IsAddProgram(input.of) /\ Returned) =>
        /\ output # <<>>
        /\ Last(output) = Decimal(input.of[2] + input.of[4])
        /\ abyss = <<>>
        /\ retval = Num(0)

\* on a fresh instance the run writes that one text and nothing else
C7_OnFreshInstance ==
    (input.encoded /\ IsAddProgram(input.of) /\ Returned /\ runs = 1) =>
        /\ output = <<Decimal(input.of[2] + input.of[4])>>
        /\ abyss = <<>>
        /\ retval = Num(0)
        /\ ~Failed

\* the second run of an instance whose first run failed in 4DD with a bubble
\* in the abyss: BLO 1; BLO 2; 4DD; PR1 returns the value of that bubble
C7_Diverges ==
    /\ input = Written(AddProgram(1, 2))
    /\ runs = 2
    /\ Returned
    /\ ~Failed
    /\ Last(output) = Decimal(3)
    /\ retval = Num(1)

-----------------------------------------------------------------------------
(* Properties of single instructions *)

\* the dispatch loop is about to execute the opcode op
About(op) == pc = "loop" /\ cursor < Len(tokens) /\ tokens[cursor + 1] % 32 = op

\* the step that executes the opcode op
Dispatching(op) == About(op) /\ Dispatch

IsBubble(x) == x.t = "bubble"
IsScalar(x) == IsBubble(x) /\ Len(x.v) <= 1
IsVector(x) == IsBubble(x) /\ Len(x.v) >= 2

Top == abyss[Len(abyss)]
Second == abyss[Len(abyss) - 1]
\* the abyss below its n topmost bubbles
Below(n) == SubSeq(abyss, 1, Len(abyss) - n)

\* C11: MRG on two scalars p (top) and q replaces them with one vector bubble
\* of the elements q, p, and the run goes on.
C11_MergeScalars ==
    [][(Dispatching(MRG) /\ Len(abyss) >= 2 /\ IsScalar(Top) /\ IsScalar(Second)) =>
          /\ pc' = "loop"
          /\ abyss' = Append(Below(2),
                             Bubble(<<LogicalValue(Second), LogicalValue(Top)>>))]_vars

\* BLO 0; BLO 1; MRG : the run has failed inside Abysser.merge and both
\* bubbles are gone
C11_Diverges ==
    /\ input = Written(<<BLO, 0, BLO, 1, MRG>> \o OpsTail)
    /\ pc = "thrown"
    /\ thrown = Error("TypeError", "Assignment to constant variable.")
    /\ trace[Len(trace)] = "Abysser.merge"
    /\ abyss = <<>>

\* the machine the next instruction acts on
Machine ==
    [ab |-> abyss, tr |-> trace, cur |-> cursor, res |-> Null, out |-> output,
     ln |-> line, err |-> Null]

\* the parameter of the instruction at the cursor
Parameter == tokens[cursor + 2]
HasParameter == cursor + 1 < Len(tokens)

\* a jump of the instruction at the cursor lands behind the parameter of the
\* label, a fall through behind its own parameter
JumpsTo == labels[Parameter] + 1
FallsTo == cursor + 2

\* two bubbles are equal: never a scalar and a vector, two vectors when they
\* have the same elements, two scalars when they have the same value
EqualBubbles(a, b) ==
    IF IsVector(a) # IsVector(b) THEN FALSE
    ELSE IF IsVector(a)
         THEN Len(a.v) = Len(b.v) /\ \A i \in 1..Len(a.v) : a.v[i] = b.v[i]
         ELSE LogicalValue(a) = LogicalValue(b)

\* C13: EQL with a defined label jumps exactly when the top two bubbles are
\* equal in that sense; the comparison gives the same answer with its
\* arguments exchanged, and every bubble is equal to itself.
C13_Equality ==
    [][(Dispatching(EQL) /\ HasParameter /\ Len(abyss) >= 2
            /\ IsBubble(Top) /\ IsBubble(Second) /\ Parameter \in DOMAIN labels) =>
          /\ pc' = "loop"
          /\ cursor' = IF EqualBubbles(Top, Second) THEN JumpsTo ELSE FallsTo
          /\ ComparatorEqual(Machine, Top, Second).result
                 = ComparatorEqual(Machine, Second, Top).result
          /\ ComparatorEqual(Machine, Top, Top).result
          /\ ComparatorEqual(Machine, Second, Second).result]_vars

C13_Witness ==
    /\ input = Written(Vector(0, 1) \o Vector(0, 1) \o <<EQL, 5>> \o OpsTail)
    /\ pc = "loop"
    /\ cursor = Len(tokens)
    /\ executed = 7
    /\ Len(abyss) = 2

\* C14: POP on a scalar top bubble removes it and pushes nothing; POP on a
\* vector top bubble of n elements replaces it by n scalar bubbles holding its
\* elements in order, the first element deepest and the last on top; the
\* bubbles below the top are unchanged.
C14_Pop ==
    [][(Dispatching(POP) /\ Len(abyss) >= 1 /\ IsBubble(Top)) =>
          /\ pc' = "loop"
          /\ IsScalar(Top) =>
                /\ abyss' = Below(1)
                /\ Len(abyss') = Len(abyss) - 1
          /\ IsVector(Top) =>
                /\ abyss' = Below(1) \o [i \in 1..Len(Top.v) |-> Bubble(<<Top.v[i]>>)]
                /\ Len(abyss') = Len(abyss) + Len(Top.v) - 1]_vars

C14_Witness ==
    /\ input = Written(<<BLO, 7>> \o Vector(0, 1) \o <<POP>> \o OpsTail)
    /\ pc = "loop"
    /\ executed = 5
    /\ abyss = <<Bubble(<<Num(7)>>), Bubble(<<Num(0)>>), Bubble(<<Num(1)>>)>>

C14_WitnessScalar ==
    /\ input = Written(<<BLO, 0, BLO, 1>> \o <<POP>> \o OpsTail)
    /\ pc = "loop"
    /\ executed = 3
    /\ abyss = <<Bubble(<<Num(0)>>)>>

NeedOne == {PRN, PR1, SBM, POP, DPL, CNT, EQZ}
NeedTwo == {MRG, DD4, SUB, MUL, DIV, EQL, LSS, GR8}

\* the opcode under the cursor and the number of bubbles it requires
Opcode == tokens[cursor + 1] % 32
Required ==
    IF Opcode \in NeedOne THEN 1
    ELSE IF Opcode \in NeedTwo THEN 2
    ELSE IF Opcode = SRN /\ HasParameter THEN Parameter
    ELSE 0

Starved(ops) ==
    /\ pc = "loop"
    /\ cursor < Len(tokens)
    /\ Opcode \in ops
    /\ TakesParameter(Opcode) => HasParameter
    /\ Len(abyss) < Required
    /\ Dispatch

NotEnoughBubbles ==
    /\ pc' = "thrown"
    /\ thrown' = OpcodeError(tokens[cursor + 1], "not enough bubbles")

\* C15: every opcode with a stack precondition, dispatched with fewer bubbles
\* in the abyss than it requires, fails the run with the opcode error
\* 'not enough bubbles'.
C15_NotEnoughBubbles ==
    [][Starved(NeedOne \cup NeedTwo \cup {SRN}) => NotEnoughBubbles]_vars

\* SBM dispatched on an empty abyss: the run goes on with undefined in the abyss
C15_Diverges ==
    /\ input = Written(<<SBM, 0>> \o OpsTail)
    /\ pc = "loop"
    /\ executed = 1
    /\ thrown = Null
    /\ abyss = <<Undefined>>

\* the opcodes other than SBM do fail with 'not enough bubbles'
C15_ExceptSubmerge ==
    [][Starved((NeedOne \cup NeedTwo \cup {SRN}) \ {SBM}) => NotEnoughBubbles]_vars

Inspecting == {EQL, LSS, GR8, EQZ, NOP, LBL, JMP}

\* C16: EQL, LSS, GR8 and EQZ inspect but never pop: after any of them, as
\* after NOP, LBL and JMP, the abyss holds the same bubbles in the same order
\* as before, whether or not the jump was taken.
C16_AbyssKept ==
    [][(pc = "loop" /\ cursor < Len(tokens) /\ Opcode \in Inspecting /\ Dispatch) =>
          abyss' = abyss]_vars

\* EQL 5 on two equal bubbles has jumped over BLO 9 to the label
C16_Witness ==
    /\ input = Written(<<BLO, 0, BLO, 0>> \o <<EQL, 5>> \o OpsTail)
    /\ pc = "loop"
    /\ executed = 3
    /\ cursor = Len(tokens)
    /\ abyss = <<Bubble(<<Num(0)>>), Bubble(<<Num(0)>>)>>

\* EQL 5 on two different bubbles has fallen through to BLO 9
C16_WitnessNotTaken ==
    /\ input = Written(<<BLO, 0, BLO, 1>> \o <<EQL, 5>> \o OpsTail)
    /\ pc = "loop"
    /\ executed = 3
    /\ cursor = Len(tokens) - 4
    /\ abyss = <<Bubble(<<Num(0)>>), Bubble(<<Num(1)>>)>>

\* BLO 0; EQL L dispatched on the machine in place of EQZ L, with the same
\* label table: whether EQL took the jump, and whether either instruction
\* failed for lack of bubbles
BloThenEql(L) ==
    LET toks  == <<BLO, 0, EQL, L>>
        blo   == Switch([Machine EXCEPT !.cur = 0], toks, labels, lines)
        mid   == [blo EXCEPT !.ab  = PushResult(blo.ab, blo.res),
                             !.tr  = Front(blo.tr),
                             !.res = Null,
                             !.cur = blo.cur + 1]
        eql   == Switch(mid, toks, labels, lines)
    IN  [jumped  |-> /\ blo.err = Null
                     /\ mid.cur = 2
                     /\ eql.err = Null
                     /\ L \in DOMAIN labels
                     /\ eql.cur = labels[L],
         starved |-> \/ blo.err = OpcodeError(BLO, "not enough bubbles")
                     \/ /\ blo.err = Null
                        /\ eql.err = OpcodeError(EQL, "not enough bubbles")]

\* C17: EQZ L takes the jump, or fails for lack of bubbles, in exactly the
\* states in which BLO 0; EQL L would: it jumps iff the top bubble is a
\* non-vector bubble whose value is exactly 0 and L is defined.
C17_ZeroShortcut ==
    [][(Dispatching(EQZ) /\ HasParameter) =>
          /\ (pc' = "loop" /\ Parameter \in DOMAIN labels /\ cursor' = JumpsTo)
                <=> BloThenEql(Parameter).jumped
          /\ (pc' = "thrown" /\ thrown' = OpcodeError(EQZ, "not enough bubbles"))
                <=> BloThenEql(Parameter).starved
          /\ BloThenEql(Parameter).jumped
                <=> /\ Len(abyss) >= 1
                    /\ IsScalar(Top)
                    /\ LogicalValue(Top) = Num(0)
                    /\ Parameter \in DOMAIN labels]_vars

\* EQZ 5 on a bubble holding 0 has jumped over BLO 9 to the label
C17_Witness ==
    /\ input = Written(<<BLO, 1, BLO, 0>> \o <<EQZ, 5>> \o OpsTail)
    /\ pc = "loop"
    /\ executed = 3
    /\ cursor = Len(tokens)
    /\ Len(abyss) = 2

\* EQZ 5 on a vector of zeros has fallen through to BLO 9
C17_WitnessVector ==
    /\ input = Written(<<BLO, 0>> \o Vector(0, 0) \o <<EQZ, 5>> \o OpsTail)
    /\ pc = "loop"
    /\ executed = 5
    /\ cursor = Len(tokens) - 4

\* EQZ 5 on an empty abyss has failed
C17_WitnessStarved ==
    /\ input = Written(<<EQZ, 5>> \o OpsTail)
    /\ pc = "thrown"
    /\ thrown = OpcodeError(EQZ, "not enough bubbles")

\* C20: CNT pushes one scalar bubble holding 0 when the top bubble is not a
\* vector (backing length 0 or 1) and holding n when it is a vector of n >= 2
\* elements; the inspected bubble stays directly beneath the new one and
\* nothing else in the abyss changes.
C20_Count ==
    [][(Dispatching(CNT) /\ Len(abyss) >= 1 /\ IsBubble(Top)) =>
          /\ pc' = "loop"
          /\ abyss' = Append(abyss,
                         Bubble(<<Num(IF IsVector(Top) THEN Len(Top.v) ELSE 0)>>))]_vars

C20_Witness ==
    /\ input = Written(<<BLO, 1, BLO, 0, BLO, 1, SRN, 3>> \o <<CNT>> \o OpsTail)
    /\ pc = "loop"
    /\ executed = 5
    /\ abyss = <<Bubble(<<Num(1), Num(0), Num(1)>>), Bubble(<<Num(3)>>)>>

C20_WitnessScalar ==
    /\ input = Written(<<BLO, 1>> \o <<CNT>> \o OpsTail)
    /\ pc = "loop"
    /\ executed = 2
    /\ abyss = <<Bubble(<<Num(1)>>), Bubble(<<Num(0)>>)>>

C20_WitnessEmpty ==
    /\ input = Written(<<SRN, 0>> \o <<CNT>> \o OpsTail)
    /\ pc = "loop"
    /\ executed = 2
    /\ abyss = <<Bubble(<<>>), Bubble(<<Num(0)>>)>>

\* C19: whatever the jump structure of the program, the dispatch loop
\* performs at most 10000 iterations, and the run that was started returns:
\* the loop ends because the cursor reaches or passes the token count or
\* because an error, at the latest the limit error, is raised.
C19_Terminates ==
    /\ [](executed <= 10000 /\ (pc = "loop" => executed < 10000))
    /\ (pc = "parsed") ~> Returned

\* the three-label loop stopped by the limit error
C19_Witness ==
    /\ input = Written(<<LBL, 0, JMP, 1, LBL, 2, JMP, 0, LBL, 1, JMP, 2>>)
    /\ Returned
    /\ thrown = TooManyOperations
    /\ executed = 10000

\* the counting loop ended by its own cursor
C19_WitnessEnds ==
    /\ input = Written(<<BLO, 2, LBL, 0, BLO, -1, DD4, EQZ, 1, JMP, 0, LBL, 1>>)
    /\ Returned
    /\ thrown = Null
    /\ executed = 9
    /\ retval = Num(0)

Sign(n) == IF n < 0 THEN -1 ELSE IF n > 0 THEN 1 ELSE 0

\* x / y truncated toward zero: the integer of the sign of x / y whose
\* magnitude is the largest with |q| * |y| <= |x|
Truncated(x, y) ==
    CHOOSE q \in -Abs(x)..Abs(x) :
        /\ Abs(q) * Abs(y) <= Abs(x)
        /\ (Abs(q) + 1) * Abs(y) > Abs(x)
        /\ q # 0 => Sign(q) = Sign(x) * Sign(y)

\* C12: for all integers x and nonzero y, the [remainder, quotient] pair of
\* the division helper satisfies quotient * y + remainder = x, the quotient
\* is x / y truncated toward zero and the remainder takes the sign of x.
C12_Division ==
    (call.fn = "Arith.bubblediv" /\ call.done /\ call.v2.v # 0) =>
        LET x == call.v1.v
            y == call.v2.v
            remainder == call.ret.v[1]
            quotient  == call.ret.v[2]
        IN  /\ call.ret.t = "arr"
            /\ Len(call.ret.v) = 2
            /\ remainder.t = "num"
            /\ quotient.t = "num"
            /\ quotient.v * y + remainder.v = x
            /\ quotient.v = Truncated(x, y)
            /\ remainder.v # 0 => Sign(remainder.v) = Sign(x)
            /\ trace = <<>>

\* -7 over 2: remainder -1, quotient -3
C12_Witness ==
    /\ call.fn = "Arith.bubblediv"
    /\ call.done
    /\ call.v1 = Num(-7)
    /\ call.v2 = Num(2)
    /\ call.ret = Arr(<<Num(-1), Num(-3)>>)

\* the call of run number k has not returned: a continuation of it is waiting
Pending(k) == \E i \in 1..Len(parked) : parked[i].id = k

\* the call number k is suspended at a read opcode
SuspendedAtRead(k) ==
    \E i \in 1..Len(parked) : parked[i].id = k /\ parked[i].at \in {"read", "loop"}

\* C18: runs on one instance are serialized: a second run invoked while the
\* first is suspended at a read opcode dispatches no instruction against the
\* shared abyss and trace until the first run has returned.
C18_Serialized ==
    [][(active = 2 /\ pc = "loop" /\ SuspendedAtRead(1)) =>
          ~(DispatchSync \/ Await)]_vars

\* the second run has pushed its bubble on the bubble of the first run, which
\* is suspended at R3D with its frames on the trace
C18_Diverges ==
    /\ active = 2
    /\ pc = "loop"
    /\ input = Written(<<BLO, 2, BLO, 3>>)
    /\ executed = 1
    /\ Len(parked) = 1
    /\ parked[1].id = 1
    /\ parked[1].at = "read"
    /\ parked[1].input = Written(<<BLO, 1, R3D, DD4>>)
    /\ abyss = <<Bubble(<<Num(1)>>), Bubble(<<Num(2)>>)>>
    /\ trace = <<"interpreter", "R3D", "InOut.read", "interpreter">>

\* the first run alone returns 1 + 7; overlapped by the second run it ends
\* in another way
C18_Observed ==
    /\ active = 1
    /\ pc = "returned"
    /\ runs = 2
    /\ input = Written(<<BLO, 1, R3D, DD4>>)
    /\ retval # Num(8)

-----------------------------------------------------------------------------
(* Properties of the read opcodes *)

FirstLine == IF Len(lines) = 0 THEN Str(<<>>) ELSE lines[1]

\* the source yields nothing: no line, an empty text, or the number 0
YieldsNothing ==
    \/ FirstLine.t = "str" /\ Len(FirstLine.v) = 0
    \/ FirstLine = Num(0)

Digits == {"0", "1", "2", "3", "4", "5", "6", "7", "8", "9"}

\* a text that is an integer: an optional minus sign and one digit or more
NumericText(txt) ==
    LET body == IF Len(txt) > 0 /\ txt[1] = "-" THEN Tail(txt) ELSE txt
    IN  Len(body) > 0 /\ \A i \in 1..Len(body) : body[i] \in Digits

RECURSIVE ValueOfDigits(_)
ValueOfDigits(ds) ==
    IF ds = <<>> THEN 0
    ELSE 10 * ValueOfDigits(Front(ds))
            + (CHOOSE d \in 0..9 : NatChars(d) = <<Last(ds)>>)

IntegerOf(txt) ==
    IF txt[1] = "-" THEN -ValueOfDigits(Tail(txt)) ELSE ValueOfDigits(txt)

Numeric == FirstLine.t = "num" \/ NumericText(FirstLine.v)
Parsed  == IF FirstLine.t = "num" THEN FirstLine.v ELSE IntegerOf(FirstLine.v)

OnlyReadRaw == input = Written(<<R3D>>)

\* C21: the program R3D returns the integer parsed from the first input
\* line, returns 0 when the source yields nothing, and fails with a type
\* error when the line is not numeric; in the non-failing cases exactly one
\* scalar bubble is pushed.
C21_ReadRaw ==
    /\ (OnlyReadRaw /\ pc = "loop" /\ executed = 1) =>
            /\ Len(abyss) = 1
            /\ IsScalar(abyss[1])
            /\ YieldsNothing => abyss = <<Bubble(<<Num(0)>>)>>
            /\ (~YieldsNothing /\ Numeric) => abyss = <<Bubble(<<Num(Parsed)>>)>>
    /\ (OnlyReadRaw /\ Returned) =>
            IF YieldsNothing THEN thrown = Null /\ retval = Num(0)
            ELSE IF Numeric THEN thrown = Null /\ retval = Num(Parsed)
            ELSE /\ thrown # Null
                 /\ thrown.v[1] = "TypeError"
                 /\ retval = Num(1)

\* the line '4x' is not numeric and the run returns 4
C21_Diverges ==
    /\ OnlyReadRaw
    /\ lines = <<Str(<<"4", "x">>)>>
    /\ Returned
    /\ thrown = Null
    /\ retval = Num(4)

\* a text parseInt reads to its end, or in which it finds no number
ReadWhole ==
    \/ FirstLine.t = "num"
    \/ Len(FirstLine.v) = 0
    \/ NumericText(FirstLine.v)
    \/ ParseInt(FirstLine.v) = NaN

C21_ExceptPrefix == ReadWhole => C21_ReadRaw

-----------------------------------------------------------------------------
(* Properties of the label pre-pass and of the cursor *)

\* the entry labels[n] was registered by a definition LBL n: it is the
\* 0-based index of the parameter of an opcode token LBL whose parameter is n
RegisteredByDefinition(ts, n) ==
    /\ labels[n] \in OpcodePositions(ts)
    /\ ts[labels[n]] % 32 = LBL
    /\ labels[n] < Len(ts)
    /\ ts[labels[n] + 1] = n

\* C22: the label pre-pass skips the parameter token of every parameterized
\* opcode, whatever the sign its opcode token was written with: only opcode
\* tokens are tested for being a label definition, so no parameter value
\* registers a label.
C22_ParametersSkipped ==
    input.encoded =>
        \A n \in DOMAIN labels : RegisteredByDefinition(input.of, n)

\* JMP 5; JMP 16 (written with the sign unit); LBL 5 : the parameter 16 has
\* registered the label 16, and the definition of 5 was taken as a parameter
C22_Diverges ==
    /\ input = Written(<<JMP, 5, -15, 16, LBL, 5>>)
    /\ pc = "loop"
    /\ executed = 0
    /\ DOMAIN labels = {16}
    /\ labels[16] = 4

\* the same for the programs whose opcodes are all written without the sign
\* unit
C22_OfPositiveOpcodes ==
    (input.encoded /\ PositiveOpcodes(input.of)) =>
        /\ \A n \in DOMAIN labels : RegisteredByDefinition(input.of, n)
        /\ pc \in {"loop", "returned"} =>
               \A i \in OpcodePositions(input.of) :
                   (input.of[i] % 32 = LBL /\ i < Len(input.of)) =>
                       input.of[i + 1] \in DOMAIN labels

\* C23: at the start of every iteration of the dispatch loop the cursor
\* points at a token that the tokenizer decoded as an opcode token, never at
\* a parameter token.
C23_CursorAtOpcode ==
    (input.encoded /\ pc = "loop" /\ cursor < Len(tokens)) =>
        cursor + 1 \in OpcodePositions(input.of)

\* JMP 16; JMP 16 (written with the sign unit); LBL 5 : the jump has gone to
\* the label registered by the parameter 16, and the cursor stands on the
\* parameter of LBL
C23_Diverges ==
    /\ input = Written(<<JMP, 16, -15, 16, LBL, 5>>)
    /\ pc = "loop"
    /\ executed = 1
    /\ cursor = 5
    /\ cursor + 1 \in ParameterPositions(input.of)

C23_OfPositiveOpcodes ==
    (input.encoded /\ PositiveOpcodes(input.of) /\ pc = "loop"
        /\ cursor < Len(tokens)) =>
        cursor + 1 \in OpcodePositions(input.of)

-----------------------------------------------------------------------------
(* Properties of the arithmetic opcodes *)

\* a bubble of integers
OfIntegers(b) == IsBubble(b) /\ \A i \in 1..Len(b.v) : b.v[i].t = "num"

\* the integer of a scalar bubble of integers (0 when its backing is empty)
Scalar(b) == IF Len(b.v) = 0 THEN 0 ELSE b.v[1].v

\* one of the top two bubbles is a vector and the other a scalar
Broadcast ==
    /\ Len(abyss) >= 2
    /\ OfIntegers(Top)
    /\ OfIntegers(Second)
    /\ IsVector(Top) # IsVector(Second)

TheVector == IF IsVector(Top) THEN Top ELSE Second
TheScalar == IF IsVector(Top) THEN Second ELSE Top

\* C24: 4DD, SUB and MUL applied to one vector bubble of n elements and one
\* scalar bubble s pop both and push a single vector bubble of n elements,
\* each the operator applied to the corresponding vector element and s.
C24_Broadcast ==
    [][(\E op \in {DD4, SUB, MUL} : Dispatching(op) /\ Broadcast) =>
          /\ pc' = "loop"
          /\ Len(abyss') = Len(abyss) - 1
          /\ SubSeq(abyss', 1, Len(abyss) - 2) = Below(2)
          /\ LET pushed == abyss'[Len(abyss')] IN
             /\ IsVector(pushed)
             /\ Len(pushed.v) = Len(TheVector.v)
             /\ Dispatching(DD4) =>
                    \A i \in 1..Len(pushed.v) :
                        pushed.v[i] = Num(TheVector.v[i].v + Scalar(TheScalar))
             /\ Dispatching(MUL) =>
                    \A i \in 1..Len(pushed.v) :
                        pushed.v[i] = Num(TheVector.v[i].v * Scalar(TheScalar))]_vars

\* [0, 1] and 1 added: the bubble pushed has one element, the array [1, 2]
C24_Diverges ==
    /\ input = Written(Vector(0, 1) \o <<BLO, 1>> \o <<DD4>> \o OpsTail)
    /\ pc = "loop"
    /\ executed = 5
    /\ abyss = <<Bubble(<<Arr(<<Num(1), Num(2)>>)>>)>>
    /\ IsScalar(Top)
    /\ BubbleSize(Top) = 0

\* the numbers a result bubble holds, whether as its elements or as the
\* elements of the one array it holds
Numbers(b) ==
    IF Len(b.v) = 1 /\ b.v[1].t = "arr" THEN b.v[1].v ELSE b.v

\* a - b of the shapes of C25, a the top bubble and b the one beneath it
Difference(a, b) ==
    IF IsVector(a) /\ IsVector(b)
    THEN [i \in 1..Min(Len(a.v), Len(b.v)) |-> Num(a.v[i].v - b.v[i].v)]
    ELSE IF IsVector(a) THEN [i \in 1..Len(a.v) |-> Num(a.v[i].v - Scalar(b))]
    ELSE IF IsVector(b) THEN [i \in 1..Len(b.v) |-> Num(Scalar(a) - b.v[i].v)]
    ELSE <<Num(Scalar(a) - Scalar(b))>>

\* C25: SUB computes a - b with a the bubble nearer the top: two scalars give
\* a - b, vector a with scalar b gives a[i] - b for every i, and scalar a with
\* vector b gives a - b[i] for every i.
C25_Subtraction ==
    [][(Dispatching(SUB) /\ Len(abyss) >= 2 /\ OfIntegers(Top) /\ OfIntegers(Second)
            /\ ~(IsVector(Top) /\ IsVector(Second))) =>
          /\ pc' = "loop"
          /\ Len(abyss') = Len(abyss) - 1
          /\ Numbers(abyss'[Len(abyss')]) = Difference(Top, Second)]_vars

\* 1 on top of [0, 1]: the numbers pushed are [0 - 1, 1 - 1]
C25_Diverges ==
    /\ input = Written(Vector(0, 1) \o <<BLO, 1>> \o <<SUB>> \o OpsTail)
    /\ pc = "loop"
    /\ executed = 5
    /\ Len(abyss) = 1
    /\ Numbers(Top) = <<Num(-1), Num(0)>>

\* the shapes other than scalar on top of vector
C25_ExceptScalarOverVector ==
    [][(Dispatching(SUB) /\ Len(abyss) >= 2 /\ OfIntegers(Top) /\ OfIntegers(Second)
            /\ ~(IsScalar(Top) /\ IsVector(Second))) =>
          /\ pc' = "loop"
          /\ Numbers(abyss'[Len(abyss')]) = Difference(Top, Second)]_vars

\* C26: DIV dispatched with two scalar bubbles x (top) and nonzero y beneath
\* it pops both and pushes one vector bubble [x mod y, x / y truncated toward
\* zero]; the run does not fail and the depth decreases by one.
C26_DivideScalars ==
    [][(Dispatching(DIV) /\ Len(abyss) >= 2 /\ OfIntegers(Top) /\ OfIntegers(Second)
            /\ IsScalar(Top) /\ IsScalar(Second) /\ Scalar(Second) # 0) =>
          LET x == Scalar(Top)
              y == Scalar(Second)
              q == Truncated(x, y)
          IN  /\ pc' = "loop"
              /\ abyss' = Append(Below(2), Bubble(<<Num(x - q * y), Num(q)>>))]_vars

\* 1 over 1: the run has failed inside Arith.div with both bubbles popped
C26_Diverges ==
    /\ input = Written(<<BLO, 1, BLO, 1>> \o <<DIV>> \o OpsTail)
    /\ pc = "thrown"
    /\ thrown = Error("ReferenceError", "bv1 is not defined")
    /\ trace[Len(trace)] = "Arith.div"
    /\ abyss = <<>>


-----------------------------------------------------------------------------
(* Properties of the ordering jumps *)

\* the top two bubbles are bubbles of integers, neither of them empty
TwoOfIntegers ==
    /\ Len(abyss) >= 2
    /\ OfIntegers(Top) /\ Len(Top.v) >= 1
    /\ OfIntegers(Second) /\ Len(Second.v) >= 1

\* both of the top two bubbles are scalars and the top value is strictly
\* less than the second value
TopLessThanSecond ==
    /\ IsScalar(Top) /\ IsScalar(Second)
    /\ Scalar(Top) < Scalar(Second)

\* C27: LSS L and GR8 L take the jump under the same condition: both of the
\* top two bubbles are scalars, the top value is strictly less than the
\* second value, and L is a defined label; otherwise, and in particular when
\* either bubble is a vector, the instruction falls through
C27_SameCondition ==
    [][((Dispatching(LSS) \/ Dispatching(GR8)) /\ HasParameter /\ TwoOfIntegers) =>
          /\ pc' = "loop"
          /\ abyss' = abyss
          /\ IF TopLessThanSecond /\ Parameter \in DOMAIN labels
             THEN cursor' = JumpsTo
             ELSE cursor' = FallsTo]_vars

\* GR8 5 with 0 on top of 1 has jumped over BLO 9 to the label
C27_Witness ==
    /\ input = Written(<<BLO, 1, BLO, 0>> \o <<GR8, 5>> \o OpsTail)
    /\ pc = "loop"
    /\ executed = 3
    /\ cursor = Len(tokens)
    /\ abyss = <<Bubble(<<Num(1)>>), Bubble(<<Num(0)>>)>>

\* LSS 5 with 0 on top of 1 has jumped as well
C27_WitnessLess ==
    /\ input = Written(<<BLO, 1, BLO, 0>> \o <<LSS, 5>> \o OpsTail)
    /\ pc = "loop"
    /\ executed = 3
    /\ cursor = Len(tokens)

\* GR8 5 with 1 on top of 0 has fallen through to BLO 9
C27_WitnessGreater ==
    /\ input = Written(<<BLO, 0, BLO, 1>> \o <<GR8, 5>> \o OpsTail)
    /\ pc = "loop"
    /\ executed = 3
    /\ cursor = Len(tokens) - 4

\* GR8 5 with a scalar on top of a vector has fallen through
C27_WitnessVector ==
    /\ input = Written(Vector(0, 1) \o <<BLO, 0>> \o <<GR8, 5>> \o OpsTail)
    /\ pc = "loop"
    /\ executed = 5
    /\ cursor = Len(tokens) - 4

-----------------------------------------------------------------------------
(* Properties of the opcodes that rearrange the abyss *)

\* the sequence a without its element at position i
Without(a, i) == SubSeq(a, 1, i - 1) \o SubSeq(a, i + 1, Len(a))

\* the number of bubbles under the top one
UnderTop == Len(abyss) - 1

\* C28: SBM k with 0 <= k <= d-1 on an abyss of depth d >= 1 keeps the depth
\* and the bubbles, moves only the former top bubble and leaves the order of
\* the others unchanged: for k = 0 the moved bubble becomes the bottom, for
\* k >= 1 exactly k bubbles end up above it.
C28_Submerge ==
    [][(Dispatching(SBM) /\ HasParameter /\ Len(abyss) >= 1
            /\ Parameter >= 0 /\ Parameter <= UnderTop) =>
          LET at == IF Parameter = 0 THEN 1 ELSE Len(abyss) - Parameter
          IN  /\ pc' = "loop"
              /\ Len(abyss') = Len(abyss)
              /\ abyss'[at] = Top
              /\ Without(abyss', at) = Below(1)]_vars

\* SBM 1 on the bubbles 1 2 3 4 has put 4 under 3
C28_Witness ==
    /\ input = Written(<<BLO, 1, BLO, 2, BLO, 3, BLO, 4>> \o <<SBM, 1>> \o OpsTail)
    /\ pc = "loop"
    /\ executed = 5
    /\ abyss = <<Bubble(<<Num(1)>>), Bubble(<<Num(2)>>), Bubble(<<Num(4)>>),
                 Bubble(<<Num(3)>>)>>

\* SBM 0 on the bubbles 1 2 3 has put 3 at the bottom
C28_WitnessBottom ==
    /\ input = Written(<<BLO, 1, BLO, 2, BLO, 3>> \o <<SBM, 0>> \o OpsTail)
    /\ pc = "loop"
    /\ executed = 4
    /\ abyss = <<Bubble(<<Num(3)>>), Bubble(<<Num(1)>>), Bubble(<<Num(2)>>)>>

\* C29: SBM k whose parameter exceeds the number of bubbles under the top
\* (k > d-1 on an abyss of depth d) sinks the top bubble to the bottom of the
\* abyss, the others keeping their order above it.
C29_SinksToBottom ==
    [][(Dispatching(SBM) /\ HasParameter /\ Len(abyss) >= 1
            /\ Parameter > UnderTop) =>
          /\ pc' = "loop"
          /\ abyss' = <<Top>> \o Below(1)]_vars

\* SBM 3 on the bubbles 1 2 3 has left 3 above the bubble 1, under which
\* SBM 2 puts it
C29_Diverges ==
    /\ input = Written(<<BLO, 1, BLO, 2, BLO, 3>> \o <<SBM, 3>> \o OpsTail)
    /\ pc = "loop"
    /\ executed = 4
    /\ thrown = Null
    /\ abyss = <<Bubble(<<Num(1)>>), Bubble(<<Num(3)>>), Bubble(<<Num(2)>>)>>

\* a parameter of at least twice the number of bubbles under the top does
\* sink the top bubble to the bottom
C29_OfLargeParameters ==
    [][(Dispatching(SBM) /\ HasParameter /\ Len(abyss) >= 1
            /\ Parameter > UnderTop /\ Parameter >= 2 * UnderTop) =>
          /\ pc' = "loop"
          /\ abyss' = <<Top>> \o Below(1)]_vars

\* the n topmost bubbles, deepest first
Topmost(n) == SubSeq(abyss, Len(abyss) - n + 1, Len(abyss))

\* the elements of the bubbles bs one after the other
RECURSIVE Spliced(_)
Spliced(bs) == IF bs = <<>> THEN <<>> ELSE Head(bs).v \o Spliced(Tail(bs))

\* SRN n is about to surround n non-empty bubbles of integers, 2 <= n <= depth
Surrounding ==
    /\ Dispatching(SRN)
    /\ HasParameter
    /\ Parameter >= 2
    /\ Parameter <= Len(abyss)
    /\ \A i \in 1..Parameter : OfIntegers(Topmost(Parameter)[i])
                                 /\ Len(Topmost(Parameter)[i].v) >= 1

\* C30: SRN n with 2 <= n <= depth pops exactly the n topmost bubbles and
\* pushes one vector bubble whose elements are their values in bottom-to-top
\* order (deepest first, former top last), the elements of a popped vector
\* spliced in at its position; the depth decreases by n-1 and the bubbles
\* below are unchanged.
C30_Surround ==
    [][Surrounding =>
          /\ pc' = "loop"
          /\ Len(abyss') = Len(abyss) - (Parameter - 1)
          /\ abyss' = Append(Below(Parameter), Bubble(Spliced(Topmost(Parameter))))
          /\ IsVector(abyss'[Len(abyss')])]_vars

\* SRN 3 on the bubbles 1 2 3 4 has left 1 under the vector 2 3 4
C30_Witness ==
    /\ input = Written(<<BLO, 1, BLO, 2, BLO, 3, BLO, 4>> \o <<SRN, 3>> \o OpsTail)
    /\ pc = "loop"
    /\ executed = 5
    /\ abyss = <<Bubble(<<Num(1)>>), Bubble(<<Num(2), Num(3), Num(4)>>)>>

\* SRN 3 on 1, the vector 2 3 and 4 has spliced the vector in
C30_WitnessVector ==
    /\ input = Written(<<BLO, 1>> \o Vector(2, 3) \o <<BLO, 4>> \o <<SRN, 3>> \o OpsTail)
    /\ pc = "loop"
    /\ executed = 6
    /\ abyss = <<Bubble(<<Num(1), Num(2), Num(3), Num(4)>>)>>

-----------------------------------------------------------------------------
(* Properties of the tokenizer's reading loop *)

\* the n characters of the cleaned text at the cursor of the tokenizer
AtCursor(n) == Substring(cleaned, pst.cursor, pst.cursor + n)

\* the error of a unit that cannot be read at the offset at
Malformed(at) ==
    Error("SyntaxError", "malformed input (" \o NumberToString(at) \o ")")

\* token i of the machine st began with the sign unit
SignSeeded(st, i) == Substring(cleaned, st.from[i], st.from[i] + 4) = SignUnit

\* a token that began with the sign unit is negative and within its width, a
\* token that did not is not negative
SignedInRange(st) ==
    \A i \in 1..Len(st.tokens) :
        IF SignSeeded(st, i)
        THEN IF st.built[i] = 5 THEN st.tokens[i] \in -16..-1
             ELSE st.built[i] = 8 /\ st.tokens[i] \in -128..-1
        ELSE st.tokens[i] >= 0

\* C31: the sign unit ' ~wa' is accepted only as the first bit of a token,
\* where it sets the accumulator to -1 and counts as one bit, so that a 5-bit
\* token that starts with it lies in -16..-1 and an 8-bit parameter in
\* -128..-1; at any other bit, and for any other substring at the cursor that
\* is no unit, the tokenizer fails with the syntax error 'malformed input'
\* that reports the cursor.
C31_SignSeed ==
    [][TokenizerStep =>
          /\ SignedInRange(pst')
          /\ IF AtCursor(2) = OneUnit \/ AtCursor(4) = ZeroUnit
             THEN pst'.status = "run"
             ELSE IF AtCursor(4) = SignUnit /\ pst.bits = 0
                  THEN /\ pst'.status = "run"
                       /\ pst'.value = -1
                       /\ pst'.bits = 1
                       /\ pst'.cursor = pst.cursor + 4
                       /\ pst'.tokens = pst.tokens
                  ELSE /\ pst'.status = "error"
                       /\ pst'.error = Malformed(pst.cursor)
                       /\ pst'.tokens = pst.tokens]_vars

\* the sign unit as the second bit of a token has failed the tokenizer at
\* its offset
C31_Witness ==
    /\ input = Text(StartUnit \o OneUnit \o SignUnit \o OneUnit)
    /\ pst.status = "error"
    /\ pst.bits = 1
    /\ pst.error = Malformed(5)

\* an opcode and a parameter that both began with the sign unit
C31_WitnessSigned ==
    /\ pst.status = "done"
    /\ pst.tokens = <<-1, LBL, -128>>
    /\ SignSeeded(pst, 1) /\ pst.built[1] = 5
    /\ SignSeeded(pst, 3) /\ pst.built[3] = 8

\* the sign unit as the first bit of a parameter has been taken
C31_WitnessParameter ==
    /\ input = Text(StartUnit \o ZeroUnit \o ZeroUnit \o OneUnit \o ZeroUnit \o OneUnit
                        \o SignUnit \o OneUnit)
    /\ pst.status = "run"
    /\ pst.tokens = <<BLO>>
    /\ pst.bits = 1
    /\ pst.value = -1

\* the number of characters of the cleaned text from the cursor on
Remaining == Len(cleaned) - pst.cursor

\* the loop makes an iteration only with at least n characters remaining,
\* each iteration that reads a unit moves the cursor to the right, and the
\* tokenizer returns only with fewer than n remaining
StopsBelow(n) ==
    /\ TokenizerStep =>
          /\ Remaining >= n
          /\ pst'.status = "run" => pst'.cursor > pst.cursor
    /\ TokenizerReturn => Remaining < n

\* C32: the tokenizer decodes bit units left to right and stops decoding as
\* soon as fewer than 4 characters remain after the cursor.
C32_StopsBelowFour == [][StopsBelow(4)]_vars

\* C32 as the code has it: the tokenizer decodes bit units left to right and
\* stops decoding as soon as fewer than 2 characters remain after the cursor.
C32_StopsBelowTwo == [][StopsBelow(2)]_vars

\* the last unit of the text, the two characters 'wa', has been decoded as
\* the fifth bit of PRN
C32_Witness ==
    /\ input = Text(StartUnit \o ZeroUnit \o ZeroUnit \o ZeroUnit \o ZeroUnit \o OneUnit)
    /\ pst.status = "done"
    /\ pst.tokens = <<PRN>>
    /\ Remaining = 0

\* one character is left unread without an error
C32_WitnessOneLeft ==
    /\ input = Text(StartUnit \o OneUnit \o <<"w">>)
    /\ pst.status = "done"
    /\ pst.bits = 1
    /\ Remaining = 1

\* the text has been read to its end, on the boundary of a unit, with a
\* token begun and not finished
EndsInsideToken == pst.status = "run" /\ Remaining = 0 /\ pst.bits > 0

\* the cleaned text up to where the unfinished token begins
BeforePartialToken == SubSeq(cleaned, 1, pst.start)

\* C33: when the source text ends on a bit-unit boundary part-way through a
\* token (fewer than 5 bits of an opcode or fewer than 8 bits of a parameter
\* decoded), the tokenizer raises no error and returns only the tokens
\* completed so far, the ones of the text without the partial token.
C33_PartialDiscarded ==
    [][EndsInsideToken =>
          /\ pst'.status = "done"
          /\ pst'.error = Null
          /\ pst'.tokens = pst.tokens
          /\ Parser(BeforePartialToken).status = "done"
          /\ pst'.tokens = Parser(BeforePartialToken).tokens]_vars

\* two bits of an opcode after PRN have been dropped
C33_Witness ==
    /\ input = Text(StartUnit \o ZeroUnit \o ZeroUnit \o ZeroUnit \o ZeroUnit \o OneUnit
                        \o OneUnit \o ZeroUnit)
    /\ pst.status = "done"
    /\ pst.tokens = <<PRN>>
    /\ pst.bits = 2
    /\ pst.value = 2

\* bits of a parameter have been dropped, its opcode returned alone
C33_WitnessParameter ==
    /\ pst.status = "done"
    /\ Remaining = 0
    /\ pst.parameter
    /\ pst.bits \in 1..7
    /\ pst.tokens = <<BLO>>

-----------------------------------------------------------------------------
(* Properties of the trace and of the reader across runs *)

\* C34: trace frames are balanced: after a run of a fresh instance that
\* terminates normally the trace is empty again, as it was when the run
\* began, for every program and every opcode executed.
C34_Balanced == (Returned /\ ~Failed) => trace = <<>>

\* BLO 1; POP; BLO 9; LBL 5 has returned 9 and left a frame on the trace
C34_Diverges ==
    /\ input = Written(<<BLO, 1>> \o <<POP>> \o OpsTail)
    /\ Returned
    /\ ~Failed
    /\ retval = Num(9)
    /\ trace = <<"interpreter">>

\* the run has executed no POP
NoPopExecuted == \A c \in dispatched : tokens[c + 1] % 32 # POP

\* the frames are balanced in the runs that execute no POP
C34_ExceptPop == (Returned /\ ~Failed /\ NoPopExecuted) => trace = <<>>

\* C35: after run returns, with a result or with the failure sentinel, the
\* array input source is positioned before its first line again, so that the
\* next run on the same instance reads the same lines from the beginning.
C35_ReaderReset == Returned => line = -1

\* R3D has failed on the line 'x', and R3D run again on the same instance has
\* read the second line, 7
C35_Diverges ==
    /\ lines = <<Str(<<"x">>), Str(<<"7">>)>>
    /\ runs = 2
    /\ input = Written(<<R3D>>)
    /\ output # <<>>
    /\ Returned
    /\ ~Failed
    /\ retval = Num(7)

\* the source is before its first line after every run that returns a result
C35_AfterResult == (Returned /\ ~Failed) => line = -1

-----------------------------------------------------------------------------
(* Properties of the value run returns *)

\* C36: the failure sentinel is unambiguous: run returns 1 only when the run
\* failed, and no program that terminates normally yields the value 1 as its
\* result.
C36_Unambiguous == (Returned /\ retval = Num(1)) => Failed

\* BLO 1; TRM has terminated normally, with nothing written, and returned 1
C36_Diverges ==
    /\ input = Written(<<BLO, 1>> \o <<TRM>> \o OpsTail)
    /\ Returned
    /\ ~Failed
    /\ executed = 2
    /\ output = <<>>
    /\ retval = Num(1)

\* a run that failed does return 1
C36_FailureReturnsOne == (Returned /\ Failed) => retval = Num(1)

\* the dispatches the counted loop and its tail need to reach the end of
\* the tokens: 3 to set up, 3 for each turn, one for each instruction of the
\* tail
Needed == 3 + 3 * ParseInt(lines[1].v).v + (Len(input.of) - Len(CountedLoop))

\* C37: a run terminates normally if and only if it needs at most 9999
\* dispatches to reach the end of the tokens or a TRM: the 10000th dispatch
\* ends the run with the limit error also when it is the final instruction
\* of the program, and the run returns no result then.
C37_LimitIncludesLast ==
    [][/\ (Dispatch /\ executed' = 10000) =>
              pc' = "thrown" /\ thrown' = TooManyOperations
       /\ (Finish /\ pc' = "returned") => executed <= 9999
       /\ (pc' = "returned" /\ input'.encoded) =>
              /\ thrown' = Null <=> Needed <= 9999
              /\ thrown' # Null => thrown' = TooManyOperations /\ retval' = Num(1)
              /\ thrown' = Null => executed' = Needed]_vars

\* the TRM that ends the program was the 10000th dispatch: the cursor is
\* behind the tokens and the run has failed
C37_Witness ==
    /\ input = Written(CountedLoop \o <<TRM>>)
    /\ Returned
    /\ executed = 10000
    /\ cursor > Len(tokens)
    /\ thrown = TooManyOperations
    /\ retval = Num(1)

\* the same loop without the TRM has needed 9999 dispatches and returned
\* the count
C37_WitnessLast ==
    /\ input = Written(CountedLoop)
    /\ Returned
    /\ ~Failed
    /\ executed = 9999
    /\ retval = Num(3332)

-----------------------------------------------------------------------------
(* Properties of the letter output *)

\* the integers of the bubble b that are no index of the alphabet
OutOfAlphabet(b) == {i \in 1..Len(b.v) : b.v[i].v < 0 \/ b.v[i].v >= Len(ALPHABET)}

\* the characters of the alphabet at the integers of the bubble b, in order
LettersOf(b) == [i \in 1..Len(b.v) |-> ALPHABET[b.v[i].v + 1]]

\* PRN is about to write a non-empty bubble of integers
Printing ==
    /\ Dispatching(PRN)
    /\ Len(abyss) >= 1
    /\ OfIntegers(Top)
    /\ Len(Top.v) >= 1

\* what the claim says of PRN, for the bubbles all of whose integers are
\* in the set among
PrintsLetters(among) ==
    (Printing /\ \A i \in 1..Len(Top.v) : Top.v[i].v \in among) =>
        IF OutOfAlphabet(Top) # {}
        THEN /\ pc' = "thrown"
             /\ thrown'.t = "err"
             /\ thrown'.v[1] = "RangeError"
             /\ output' = output
        ELSE /\ pc' = "loop"
             /\ output' = Append(output, Str(LettersOf(Top)))

\* C38: PRN of a bubble holding an integer outside the bounds of the
\* alphabet (v < 0 or v >= its length, 64) fails with a range error and
\* writes no letter; for every integer 0 <= v < 64 it writes exactly the v-th
\* character of the alphabet, and for a vector the concatenation of the
\* characters of its elements in order.
C38_Letters ==
    [][Len(ALPHABET) = 64 /\ PrintsLetters(Parameters)]_vars

\* BLO 64; PRN has gone on without an error and written undefined
C38_Diverges ==
    /\ input = Written(<<BLO, 64, PRN>>)
    /\ Returned
    /\ ~Failed
    /\ executed = 2
    /\ output = <<Undefined>>

\* the claim holds of every integer but the length of the alphabet itself
C38_ExceptLength ==
    [][Len(ALPHABET) = 64 /\ PrintsLetters(Parameters \ {64})]_vars

-----------------------------------------------------------------------------
(* Properties of the interactive reader *)

\* what a read does, in order: the listener is added, the prompt event is
\* dispatched, the interpreter is suspended, the processing event is
\* dispatched, the listener is removed, the value is handed over
ReadCycle == <<"listen", "awa5:prompt", "suspend", "awa5:processing", "unlisten",
               "value">>

\* the events of the reader without the clicks
Steps == SelectSeq(dom.events, LAMBDA e : e # "click")

\* the two custom events, in the order of their dispatch
Notified == SelectSeq(dom.events, LAMBDA e : e \in {"awa5:prompt", "awa5:processing"})

\* the position of the last event e before position i, 0 when there is none
LastBefore(e, i) ==
    LET at == {k \in 1..(i - 1) : dom.events[k] = e}
    IN  IF at = {} THEN 0 ELSE CHOOSE k \in at : \A l \in at : l <= k

\* C39: for every read through the interactive source the events are
\* ordered: the click listener is installed and 'awa5:prompt' is dispatched
\* before the interpreter suspends, 'awa5:processing' is dispatched only
\* after the click that resumes it and before the value is handed to the
\* interpreter, the two events strictly alternate across successive reads,
\* and the click listener is removed again after each read.
C39_EventOrder ==
    /\ \A i \in 1..Len(Steps) : Steps[i] = ReadCycle[((i - 1) % 6) + 1]
    /\ \A i \in 1..Len(dom.events) :
           dom.events[i] = "awa5:processing" =>
               \E k \in (LastBefore("listen", i) + 1)..(i - 1) : dom.events[k] = "click"
    /\ \A i \in 1..Len(Notified) :
           Notified[i] = IF i % 2 = 1 THEN "awa5:prompt" ELSE "awa5:processing"
    /\ dom.phase \in {"none", "unlistened"} => dom.listeners = 0
    /\ dom.phase \notin {"none", "unlistened"} => dom.listeners = 1

\* two reads of one run, the first resumed by a click made while it was
\* suspended, and the sum of the two values returned
C39_Witness ==
    /\ input = Written(<<R3D, R3D, DD4>>)
    /\ Returned
    /\ ~Failed
    /\ retval = Num(14)
    /\ Len(Steps) = 12
    /\ SubSeq(dom.events, 1, 5) = <<"listen", "awa5:prompt", "suspend", "click",
                                    "awa5:processing">>
    /\ dom.listeners = 0

\* a click from a handler of the prompt event, before the interpreter is
\* suspended, and a second click that finds the promise resolved
C39_WitnessEarlyClick ==
    /\ Returned
    /\ SubSeq(dom.events, 1, 6) = <<"listen", "awa5:prompt", "click", "click",
                                    "suspend", "awa5:processing">>

\* a click after the run has returned calls no listener
C39_WitnessStaleClick ==
    /\ Returned
    /\ Len(dom.events) >= 8
    /\ dom.events[Len(dom.events)] = "click"
    /\ dom.events[Len(dom.events) - 1] = "value"
    /\ dom.settled = Null

-----------------------------------------------------------------------------
(* Properties of a program that ends without the parameter of its last     *)
(* opcode                                                                  *)

\* the last token is an opcode that takes a parameter
ParameterMissing ==
    /\ tokens # <<>>
    /\ Len(tokens) \in OpcodePositions(tokens)
    /\ TakesParameter(tokens[Len(tokens)] % 32)

LastToken == tokens[Len(tokens)]

NotEnoughArguments == OpcodeError(LastToken, "not enough arguments")

\* what the claim says of the programs whose opcodes satisfy among
LastNeedsParameter(among) ==
    /\ (PrePass /\ ParameterMissing /\ among /\ LastToken % 32 = LBL) =>
           /\ pc' = "thrown"
           /\ thrown' = NotEnoughArguments
           /\ executed' = 0
           /\ dispatched' = {}
           /\ output' = <<>>
    /\ (Dispatch /\ ParameterMissing /\ among /\ cursor = Len(tokens) - 1) =>
           /\ pc' = "thrown"
           /\ thrown' = NotEnoughArguments
           /\ cursor' = cursor
           /\ abyss' = abyss
           /\ output' = output

\* C40: a parameterized opcode that is the last token of the program, its
\* parameter absent, fails the run with the opcode error 'not enough
\* arguments' instead of reading past the end of the tokens; for LBL the
\* failure is raised in the pre-pass, before any instruction has executed
\* or any output has been written, even when the LBL is unreachable.
C40_LastNeedsParameter == [][LastNeedsParameter(TRUE)]_vars

\* JMP written with the sign unit, its parameter 5 and LBL without a
\* parameter: the pre-pass has passed and the run has ended normally
C40_Diverges ==
    /\ input = Written(<<-15, 5>> \o <<LBL>>)
    /\ Returned
    /\ ~Failed
    /\ executed = 2
    /\ cursor = Len(tokens) + 1
    /\ retval = Num(0)

\* the claim holds of the programs whose opcodes are all written without
\* the sign unit
C40_OfPositiveOpcodes == [][LastNeedsParameter(PositiveOpcodes(tokens))]_vars

\* an unreachable LBL without a parameter has failed the run in the pre-pass
C40_WitnessUnreachable ==
    /\ input = Written(<<NOP, BLO, 2, PR1, TRM>> \o <<LBL>>)
    /\ Returned
    /\ thrown = OpcodeError(LBL, "not enough arguments")
    /\ executed = 0
    /\ Len(output) = 2
=============================================================================
